---- MODULE Spec2Model ----
(***************************************************************************)
(* Hybrid retrieval engine of backend/app/services: the BM25 keyword       *)
(* index (retrieval.py), the FAISS flat vector index and the per-startup   *)
(* index cache (index.py), the chunk store (chunk_store.py) and the        *)
(* HybridRetriever that indexes into both and fuses their rankings.        *)
(*                                                                         *)
(* Numbers.  Python floats are modelled in fixed point: BM25 and vector    *)
(* scores, fused scores and confidences are integers in units of 1/SCALE.  *)
(* A vector is represented by its width and its coordinate on the first    *)
(* axis (the other coordinates are 0), so the squared L2 distance of two   *)
(* vectors of one width is the square of the coordinate difference.        *)
(***************************************************************************)
EXTENDS Integers, Sequences, FiniteSets, TLC

VARIABLES
    chunk_storage,   \* chunk_store._chunk_storage[startup_id]: list of chunks
    index_cache,     \* index._index_cache[startup_id]: NoIndex or the FAISS state
    retriever,       \* the live HybridRetriever of the startup, or NoRetriever
    result,          \* outcome of the last operation (what its caller observes)
    nIndexed,        \* number of index_documents calls made so far
    nBuilt,          \* number of HybridRetriever constructions so far
    nVecOps,         \* number of direct index or provider calls made so far
    matching_engine, \* HybridVectorIndex.matching_engine: None or the remote backend
    _shared_model,   \* LocalEmbeddingService._shared_model: "None" or "model"
    _model_loading,  \* LocalEmbeddingService._model_loading
    nLoads,          \* number of SentenceTransformer models constructed so far
    pc,              \* per thread: its position in LocalEmbeddingService.__init__
    service,         \* the provider get_embedding_service() returns, or NoService
    twin,            \* a second startup, and the run in which it was never used
    hash_order       \* the order in which this process enumerates a set of chunk ids

\* the class state of LocalEmbeddingService, the threads constructing it and
\* the provider instance
embedVars == <<_shared_model, _model_loading, nLoads, pc, service, twin, hash_order>>

\* the state outside the retriever, its vector index and the chunk store
auxVars == <<matching_engine, embedVars>>

vars == <<chunk_storage, index_cache, retriever, result, nIndexed, nBuilt, nVecOps,
          matching_engine, _shared_model, _model_loading, nLoads, pc, service, twin,
          hash_order>>

----------------------------------------------------------------------------
(* Bounds of the model *)

MaxIndexCalls == 2
MaxBuilds == 2
MaxVecOps == 3
MaxK == 3

(* Program constants *)

SCALE == 10000          \* fixed-point unit: SCALE stands for 1.0
DefaultDim == 768
EmbeddingDim == 384
VECTOR_K == 8
BM25_K == 8
VectorWeight == 7       \* 0.7, in tenths
Bm25Weight == 3         \* 0.3, in tenths
FlatConfidence == 1000  \* 0.1 * SCALE

----------------------------------------------------------------------------
(* Generic helpers *)

Min(a, b) == IF a <= b THEN a ELSE b

Abs(a) == IF a < 0 THEN 0 - a ELSE a

\* Python's a / b on floats, in fixed point: rounds toward zero
QuotTrunc(a, b) ==
    IF (a >= 0) = (b > 0) THEN Abs(a) \div Abs(b) ELSE 0 - (Abs(a) \div Abs(b))

Range(s) == {s[i] : i \in 1..Len(s)}

Take(s, n) == SubSeq(s, 1, Min(n, Len(s)))

RECURSIVE SeqSum(_)
SeqSum(s) == IF s = <<>> THEN 0 ELSE Head(s) + SeqSum(Tail(s))

RECURSIVE SelectIn(_, _)
\* the elements of sequence s that belong to set S, in the order of s
SelectIn(s, S) ==
    IF s = <<>> THEN <<>>
    ELSE IF Head(s) \in S THEN <<Head(s)>> \o SelectIn(Tail(s), S)
    ELSE SelectIn(Tail(s), S)

RECURSIVE Dedup(_)
\* keys of a Python dict built from the sequence s: first occurrences, in order
Dedup(s) ==
    IF s = <<>> THEN <<>>
    ELSE LET r == Dedup(SubSeq(s, 1, Len(s) - 1))
         IN  IF s[Len(s)] \in Range(r) THEN r ELSE Append(r, s[Len(s)])

\* index of the last position of s holding x (s contains x)
LastPos(s, x) == CHOOSE i \in 1..Len(s) : s[i] = x /\ \A j \in (i+1)..Len(s) : s[j] # x

FirstPos(s, x) == CHOOSE i \in 1..Len(s) : s[i] = x /\ \A j \in 1..(i-1) : s[j] # x

RECURSIVE InsertDesc(_, _)
\* insert the pair e = <<id, score>> into a list sorted by non-increasing
\* score, after every entry with a score >= its own (stable)
InsertDesc(sorted, e) ==
    IF sorted = <<>> THEN <<e>>
    ELSE IF Head(sorted)[2] >= e[2] THEN <<Head(sorted)>> \o InsertDesc(Tail(sorted), e)
    ELSE <<e>> \o sorted

RECURSIVE SortDesc(_)
\* sorted(items, key=score, reverse=True): stable, descending
SortDesc(s) ==
    IF s = <<>> THEN <<>>
    ELSE InsertDesc(SortDesc(SubSeq(s, 1, Len(s) - 1)), s[Len(s)])

\* 10^4 * ln(n) for n = 1..45, rounded
LnTable ==
    << 0, 6931, 10986, 13863, 16094, 17918, 19459, 20794, 21972, 23026,
       23979, 24849, 25649, 26391, 27081, 27726, 28332, 28904, 29444, 29957,
       30445, 30910, 31355, 31781, 32189, 32581, 32958, 33322, 33673, 34012,
       34340, 34657, 34965, 35264, 35553, 35835, 36109, 36376, 36636, 36889,
       37136, 37377, 37612, 37842, 38067 >>

\* math.log(num / den) for positive integers, in units of 1/SCALE
LnFix(num, den) == LnTable[num] - LnTable[den]

----------------------------------------------------------------------------
(* Chunks *)

Ids == {"a", "b", "c"}

\* the ids of the model in increasing (string) order
IdOrder == <<"a", "b", "c">>

\* a DocumentChunk (dto.py) has id, type, source, text, metadata;
\* a Chunk (dto.py) has chunk_id, content, metadata and nothing else
Doc(kind, id, type, text) ==
    [kind |-> kind, id |-> id, type |-> IF kind = "Chunk" THEN "none" ELSE type, text |-> text]

HasText(doc) == doc.kind = "DocumentChunk"
HasType(doc) == doc.kind = "DocumentChunk"
HasChunkId(doc) == doc.kind = "Chunk"

DocsA(kind) ==
    << Doc(kind, "a", "slide", <<"revenue">>),
       Doc(kind, "b", "text", <<"team">>),
       Doc(kind, "c", "text", <<"The", "team">>) >>

DocsB(kind) ==
    << Doc(kind, "b", "text", <<"Revenue", "team", "team">>),
       Doc(kind, "a", "slide", <<"team">>) >>

DocsC(kind) ==
    << Doc(kind, "c", "text", <<"the", "ox">>) >>

\* a list whose order is not the order of its ids
DocsD(kind) ==
    << Doc(kind, "c", "slide", <<"Growth">>),
       Doc(kind, "b", "text", <<"the", "ox">>),
       Doc(kind, "a", "text", <<"team">>) >>

\* the non-empty chunk lists callers hand to store_chunks / index_documents
ChunkLists ==
    { DocsA("DocumentChunk"), DocsB("DocumentChunk"), DocsC("DocumentChunk"),
      DocsD("DocumentChunk"), DocsA("Chunk"), DocsB("Chunk") }

Queries == { <<"revenue">>, <<"revenue", "team">>, <<"Growth", "of">> }

----------------------------------------------------------------------------
(* BM25Retriever *)

Stopwords ==
    { "the", "a", "an", "and", "or", "but", "in", "on", "at", "to", "for",
      "of", "with", "by", "from", "as", "is", "was", "are", "were", "been",
      "be", "have", "has", "had", "do", "does", "did", "will", "would",
      "could", "should", "may", "might", "must", "can", "shall", "it", "this",
      "that", "these", "those", "i", "you", "he", "she", "we", "they", "them" }

\* str.lower() on the words of the model
Lower(w) ==
    CASE w = "Revenue" -> "revenue"
      [] w = "The" -> "the"
      [] w = "Growth" -> "growth"
      [] OTHER -> w

\* len(t) of a lower-cased word
WordLen(w) ==
    CASE w = "ox" -> 2
      [] w = "of" -> 2
      [] w = "the" -> 3
      [] w = "team" -> 4
      [] w = "growth" -> 6
      [] w = "revenue" -> 7
      [] w = "40" -> 2
      [] w = "200" -> 3
      [] w = "has" -> 3
      [] w = "this" -> 4
      [] w = "grew" -> 4
      [] w = "year" -> 4
      [] w = "engineers" -> 9

RECURSIVE _tokenize(_)
\* text is the sequence of \w+ words of the string
_tokenize(text) ==
    IF text = <<>> THEN <<>>
    ELSE LET t == Lower(Head(text))
         IN  IF t \notin Stopwords /\ WordLen(t) > 2
             THEN <<t>> \o _tokenize(Tail(text))
             ELSE _tokenize(Tail(text))

Count(s, x) == Cardinality({i \in 1..Len(s) : s[i] = x})

\* doc.text if hasattr(doc, 'text') else doc.content
TextOf(doc) == doc.text

\* an insertion-ordered dict: keys in insertion order, val the mapping
EmptyDict == [keys |-> <<>>, val |-> <<>>]

DictGet(d, k) == d.val[FirstPos(d.keys, k)]

DictHas(d, k) == k \in Range(d.keys)

\* d[k] = v
DictSet(d, k, v) ==
    IF DictHas(d, k)
    THEN [d EXCEPT !.val[FirstPos(d.keys, k)] = v]
    ELSE [keys |-> Append(d.keys, k), val |-> Append(d.val, v)]

RECURSIVE DictOfDocs(_)
\* {doc.id: doc for doc in documents}
DictOfDocs(docs) ==
    IF docs = <<>> THEN EmptyDict
    ELSE LET d == docs[Len(docs)]
         IN  DictSet(DictOfDocs(SubSeq(docs, 1, Len(docs) - 1)), d.id, d)

Tokens == {"revenue", "team", "growth", "grew", "200", "year", "engineers"}

\* BM25Retriever.__init__
BM25New ==
    [ doc_freqs |-> [t \in Tokens |-> 0],
      doc_lens |-> [i \in {} |-> 0],
      avg_num |-> 0,           \* avg_doc_len = avg_num / avg_den
      avg_den |-> 1,
      total_docs |-> 0,
      inverted_index |-> [t \in Tokens |-> {}],
      documents |-> EmptyDict ]

\* one iteration of the loop of index_documents over doc
BM25AddDoc(bm, doc) ==
    LET tokens == _tokenize(TextOf(doc))
        unique == Range(tokens)
    IN  [bm EXCEPT
            !.doc_lens = (doc.id :> Len(tokens)) @@ @,
            !.doc_freqs = [t \in Tokens |-> IF t \in unique THEN @[t] + 1 ELSE @[t]],
            !.inverted_index = [t \in Tokens |-> IF t \in unique THEN @[t] \cup {doc.id} ELSE @[t]]]

RECURSIVE BM25AddDocs(_, _)
BM25AddDocs(bm, docs) ==
    IF docs = <<>> THEN bm
    ELSE BM25AddDocs(BM25AddDoc(bm, Head(docs)), Tail(docs))

RECURSIVE TotalLen(_)
TotalLen(docs) ==
    IF docs = <<>> THEN 0
    ELSE Len(_tokenize(TextOf(Head(docs)))) + TotalLen(Tail(docs))

\* BM25Retriever.index_documents
BM25IndexDocuments(bm, documents) ==
    LET b1 == [bm EXCEPT !.documents = DictOfDocs(documents),
                         !.total_docs = Len(documents)]
        b2 == BM25AddDocs(b1, documents)
    IN  IF Len(documents) > 0
        THEN [b2 EXCEPT !.avg_num = TotalLen(documents), !.avg_den = Len(documents)]
        ELSE [b2 EXCEPT !.avg_num = 0, !.avg_den = 1]

\* BM25Retriever._calculate_idf raises ValueError (math.log of a number <= 0)
IdfRaises(bm, token) ==
    bm.doc_freqs[token] # 0 /\ bm.total_docs - bm.doc_freqs[token] < 0

\* BM25Retriever._calculate_idf, in units of 1/SCALE:
\* log((N - df + 0.5) / (df + 0.5)) = log((2N - 2df + 1) / (2df + 1))
_calculate_idf(bm, token) ==
    LET doc_freq == bm.doc_freqs[token]
    IN  IF doc_freq = 0 THEN 0
        ELSE LnFix(2 * bm.total_docs - 2 * doc_freq + 1, 2 * doc_freq + 1)

\* BM25Retriever._calculate_tf
_calculate_tf(token, text) == Count(_tokenize(text), token)

\* the body of the inner loop of search raises for (token, doc_id):
\* KeyError on self.documents[doc_id], AttributeError on doc.text,
\* ZeroDivisionError on doc_len / self.avg_doc_len
PairRaises(bm, token, doc_id) ==
    \/ ~DictHas(bm.documents, doc_id)
    \/ ~HasText(DictGet(bm.documents, doc_id))
    \/ bm.avg_num = 0

\* idf * (tf * (k1 + 1)) / (tf + k1 * (1 - b + b * doc_len / avg_doc_len))
\* with k1 = 1.2, b = 0.75 and avg_doc_len = avg_num / avg_den
PairScore(bm, token, doc_id) ==
    LET tf == _calculate_tf(token, DictGet(bm.documents, doc_id).text)
        doc_len == bm.doc_lens[doc_id]
    IN  QuotTrunc(_calculate_idf(bm, token) * 22 * tf * bm.avg_num,
                  10 * tf * bm.avg_num + 3 * bm.avg_num + 9 * doc_len * bm.avg_den)

\* the query tokens the loop of search enters: `if token in self.inverted_index`
HitTokens(bm, query) ==
    LET qt == _tokenize(query)
    IN  SelectIn(qt, {t \in Tokens : bm.inverted_index[t] # {}})

SearchRaises(bm, query) ==
    \E i \in 1..Len(HitTokens(bm, query)) :
        LET t == HitTokens(bm, query)[i]
        IN  \/ IdfRaises(bm, t)
            \/ \E d \in bm.inverted_index[t] : PairRaises(bm, t, d)

RECURSIVE PostingScores(_, _, _)
\* the <<doc_id, score>> additions of one token, ids being a list of doc ids
PostingScores(bm, token, ids) ==
    IF ids = <<>> THEN <<>>
    ELSE <<(<<Head(ids), PairScore(bm, token, Head(ids))>>)>>
         \o PostingScores(bm, token, Tail(ids))

RECURSIVE Contributions(_, _, _)
\* all additions to `scores`, in execution order; iter is the order in which
\* Python enumerates the members of a set of ids
Contributions(bm, tokens, iter) ==
    IF tokens = <<>> THEN <<>>
    ELSE PostingScores(bm, Head(tokens), SelectIn(iter, bm.inverted_index[Head(tokens)]))
         \o Contributions(bm, Tail(tokens), iter)

\* the dict `scores` as a list of <<doc_id, total>> in insertion order
ScoreItems(contribs) ==
    LET keys == Dedup([i \in 1..Len(contribs) |-> contribs[i][1]])
    IN  [i \in 1..Len(keys) |->
            <<keys[i], SeqSum([j \in 1..Len(contribs) |->
                                 IF contribs[j][1] = keys[i] THEN contribs[j][2] ELSE 0])>>]

\* BM25Retriever.search
BM25Search(bm, query, k, iter) ==
    IF SearchRaises(bm, query)
    THEN [raised |-> TRUE, results |-> <<>>]
    ELSE [raised |-> FALSE,
          results |-> Take(SortDesc(ScoreItems(
                          Contributions(bm, HitTokens(bm, query), iter))), k)]

----------------------------------------------------------------------------
(* Embeddings *)

\* a vector of `dim` floats whose first coordinate is x and the others 0
Vec(dim, x) == [dim |-> dim, x |-> x]

WordAxis(w) ==
    CASE w = "revenue" -> 3
      [] w = "growth" -> 1
      [] w = "team" -> 0 - 2
      [] OTHER -> 0

\* LocalEmbeddingService.embed_text: a deterministic function of the text,
\* of width embedding_dim
EmbedText(text) ==
    Vec(EmbeddingDim, SeqSum([i \in 1..Len(text) |-> WordAxis(Lower(text[i]))]))

\* LocalEmbeddingService.embed_batch
EmbedBatch(texts) == [i \in 1..Len(texts) |-> EmbedText(texts[i])]

----------------------------------------------------------------------------
(* FAISSIndex *)

NoMeta == [type |-> "none"]      \* a metadata dict without the key 'type'

NoFilter == [type |-> "any"]     \* filter=None

\* FAISSIndex.__init__ / init_index: an empty IndexFlatL2 of width dimension.
\* rows is the flat store (row i+1 has internal id i); index.d = dimension.
FaissNew(dimension) ==
    [ dimension |-> dimension,
      rows |-> <<>>,
      id_map |-> [i \in {} |-> "a"],
      metadata_map |-> [i \in {} |-> NoMeta],
      vector_map |-> EmptyDict ]

\* FAISSIndex.init_index on an existing object: only self.index is replaced
init_index(f, dimension) == [f EXCEPT !.dimension = dimension, !.rows = <<>>]

\* np.array(vectors, dtype=np.float32) raises on rows of unequal width
Ragged(vectors) == \E i, j \in 1..Len(vectors) : vectors[i].dim # vectors[j].dim

RECURSIVE UpdateMappings(_, _, _, _, _, _)
\* the loop `for i, (vec_id, vec) in enumerate(zip(ids, vectors))`, from i on
UpdateMappings(f, start_idx, vectors, ids, metadata, i) ==
    IF i >= Min(Len(ids), Len(vectors)) THEN f
    ELSE LET vec_id == ids[i + 1]
             meta == IF i < Len(metadata) THEN metadata[i + 1] ELSE NoMeta
             g == [f EXCEPT
                     !.id_map = ((start_idx + i) :> vec_id) @@ @,
                     !.vector_map = DictSet(@, vec_id, vectors[i + 1]),
                     !.metadata_map = (vec_id :> meta) @@ @]
         IN  UpdateMappings(g, start_idx, vectors, ids, metadata, i + 1)

\* FAISSIndex.add_vectors.  fault names where the environment makes the call
\* fail inside the try block: "none", "convert" (np.array) or "add" (index.add).
\* Every exception is swallowed and the method returns True.
FaissAddVectors(f, vectors, ids, metadata, fault) ==
    IF vectors = <<>> THEN f
    ELSE IF Ragged(vectors) \/ fault = "convert" THEN f
    ELSE LET actual_dim == vectors[1].dim
             g == IF f.dimension # actual_dim THEN init_index(f, actual_dim) ELSE f
             start_idx == Len(g.rows)
         IN  IF fault = "add" THEN g
             ELSE UpdateMappings([g EXCEPT !.rows = @ \o vectors],
                                 start_idx, vectors, ids, metadata, 0)

\* squared L2 distance of two TF-IDF rows (l2-normalised, or all zero), given
\* their sets of non-zero columns, to the nearest integer: 0 for the same
\* columns, 2 for two rows without a common column, 1 for a row against the
\* zero row and for rows that share some columns
ColsDistance(U, V) ==
    IF U = V THEN 0
    ELSE IF U \cap V # {} THEN 1
    ELSE (IF U = {} THEN 0 ELSE 1) + (IF V = {} THEN 0 ELSE 1)

\* squared L2 distance of two hash rows: their components are pseudo-random
\* in [-1, 1], so the distance of two different rows lies near
\* 2/3 * embedding_dim = 256
HashDistance(u, v) == IF u.x = v.x THEN 0 ELSE 256 + (Abs(u.x - v.x) % 32)

\* squared L2 distance of two vectors of the same width
L2(u, v) ==
    IF "cols" \in DOMAIN u /\ "cols" \in DOMAIN v THEN ColsDistance(u.cols, v.cols)
    ELSE IF "hashed" \in DOMAIN u /\ "hashed" \in DOMAIN v THEN HashDistance(u, v)
    ELSE (u.x - v.x) * (u.x - v.x)

\* filter matching: all(metadata.get(key) == value for key, value in filter)
FilterMatch(meta, filter) == filter = NoFilter \/ meta.type = filter.type

\* internal ids of the n nearest rows, by increasing distance (ties: lower id)
Nearest(f, q, n) ==
    LET cand == [i \in 1..Len(f.rows) |-> <<i - 1, 0 - L2(f.rows[i], q)>>]
        sorted == SortDesc(cand)
    IN  [i \in 1..Min(n, Len(sorted)) |-> sorted[i][1]]

RECURSIVE CollectResults(_, _, _, _, _, _)
\* the loop of FAISSIndex.search if it cut the candidates down to k before
\* looking at the filter
CollectTruncatedFirst(f, q, cands, k, filter, results) ==
    LET top == Take(cands, k)
        meta(i) == IF f.id_map[top[i]] \in DOMAIN f.metadata_map
                   THEN f.metadata_map[f.id_map[top[i]]] ELSE NoMeta
        kept == SelectIn([i \in 1..Len(top) |-> i],
                         {i \in 1..Len(top) : top[i] \in DOMAIN f.id_map
                                                /\ FilterMatch(meta(i), filter)})
    IN  results \o [j \in 1..Len(kept) |->
                       [id |-> f.id_map[top[kept[j]]],
                        score |-> SCALE \div (1 + L2(f.rows[top[kept[j]] + 1], q)),
                        metadata |-> meta(kept[j])]]

\* the loop over the candidates of FAISSIndex.search
CollectResults(f, q, cands, k, filter, results) ==
    IF cands = <<>> THEN results
    ELSE LET idx == Head(cands)
             rest == Tail(cands)
         IN  IF idx \notin DOMAIN f.id_map
             THEN CollectResults(f, q, rest, k, filter, results)
             ELSE LET external_id == f.id_map[idx]
                      meta == IF external_id \in DOMAIN f.metadata_map
                              THEN f.metadata_map[external_id] ELSE NoMeta
                  IN  IF ~FilterMatch(meta, filter)
                      THEN CollectResults(f, q, rest, k, filter, results)
                      ELSE LET r == [id |-> external_id,
                                     score |-> SCALE \div (1 + L2(f.rows[idx + 1], q)),
                                     metadata |-> meta]
                               rs == Append(results, r)
                           IN  IF Len(rs) >= k THEN rs
                               ELSE CollectResults(f, q, rest, k, filter, rs)

\* self.index.search raises (caught by FAISSIndex.search, which returns [])
\* when the query width differs from index.d or no neighbour is requested
FaissSearchFails(f, q, k) == q.dim # f.dimension \/ Min(k * 2, Len(f.rows)) = 0

\* FAISSIndex.search
FaissSearch(f, q, k, filter) ==
    IF FaissSearchFails(f, q, k) THEN <<>>
    ELSE CollectResults(f, q, Nearest(f, q, Min(k * 2, Len(f.rows))), k, filter, <<>>)

\* FAISSIndex.delete: rebuild from vector_map without ids
FaissDelete(f, ids) ==
    LET keep == SelectIn(f.vector_map.keys, Range(f.vector_map.keys) \ ids)
        remaining_vectors == [i \in 1..Len(keep) |-> DictGet(f.vector_map, keep[i])]
        remaining_metadata == [i \in 1..Len(keep) |->
                                 IF keep[i] \in DOMAIN f.metadata_map
                                 THEN f.metadata_map[keep[i]] ELSE NoMeta]
        cleared == [FaissNew(f.dimension) EXCEPT !.dimension = f.dimension]
    IN  FaissAddVectors(cleared, remaining_vectors, keep, remaining_metadata, "none")

----------------------------------------------------------------------------
(* HybridRetriever *)

NoIndex == [cached |-> FALSE]

NoRetriever == [live |-> FALSE]

NoResult == [op |-> "none"]

\* the threads that may construct a LocalEmbeddingService
Threads == {"t1", "t2"}

\* a thread outside LocalEmbeddingService.__init__
Idle == [at |-> "idle", exc |-> FALSE, built |-> 0]

\* no second startup
NoTwin == [live |-> FALSE]

\* no provider was built
NoService == [live |-> FALSE]

\* self.tfidf_vectorizer does not exist yet
NoVectorizer == [created |-> FALSE, fitted |-> FALSE, vocabulary_ |-> {}]

\* the instance state LocalEmbeddingService.__init__ leaves
NewService(model) == [live |-> TRUE, model |-> model, tfidf_vectorizer |-> NoVectorizer]

\* the process after get_embedding_service() has built its one provider
\* with no other thread around: the model is loaded, no load is in progress
LoadedOnce ==
    /\ _shared_model = "model"
    /\ _model_loading = FALSE
    /\ nLoads = 1
    /\ pc = [t \in Threads |-> Idle]
    /\ service = NewService("model")
    /\ twin = NoTwin

\* HybridVectorIndex.matching_engine = None (USE_MATCHING_ENGINE is False)
NoRemote == [enabled |-> FALSE]

\* max of a non-empty sequence of <<id, score>> pairs
MaxScore(items) ==
    LET S == {items[i][2] : i \in 1..Len(items)}
    IN  CHOOSE m \in S : \A x \in S : x <= m

\* dict(pairs)[id]: the last pair with that id wins
ScoreOf(items, id) ==
    LET ids == [i \in 1..Len(items) |-> items[i][1]]
    IN  items[LastPos(ids, id)][2]

PairIds(items) == {items[i][1] : i \in 1..Len(items)}

\* vector results as <<id, score>> pairs
VectorPairs(vector_results) ==
    [i \in 1..Len(vector_results) |-> <<vector_results[i].id, vector_results[i].score>>]

\* v / max_vector: ZeroDivisionError when the largest vector score is 0
MergeRaises(vpairs) == vpairs # <<>> /\ MaxScore(vpairs) = 0

\* normalized vector score of id, in units of 1/SCALE (0 when absent)
NormVector(vpairs, id) ==
    IF id \notin PairIds(vpairs) THEN 0
    ELSE QuotTrunc(ScoreOf(vpairs, id) * SCALE, MaxScore(vpairs))

\* normalized BM25 score of id: v / max_bm25 if max_bm25 > 0, else 0.5
NormBm25(bpairs, id) ==
    IF id \notin PairIds(bpairs) THEN 0
    ELSE IF MaxScore(bpairs) > 0
         THEN QuotTrunc(ScoreOf(bpairs, id) * SCALE, MaxScore(bpairs))
         ELSE SCALE \div 2

\* 0.7 * v_score + 0.3 * b_score
Combined(vpairs, bpairs, id) ==
    QuotTrunc(VectorWeight * NormVector(vpairs, id) + Bm25Weight * NormBm25(bpairs, id), 10)

\* HybridRetriever._merge_results; iter is the order in which Python
\* enumerates the set all_ids
_merge_results(vector_results, bm25_results, iter) ==
    LET vpairs == VectorPairs(vector_results)
        all_ids == SelectIn(iter, PairIds(vpairs) \cup PairIds(bm25_results))
    IN  IF MergeRaises(vpairs) THEN [raised |-> TRUE, items |-> <<>>]
        ELSE [raised |-> FALSE,
              items |-> SortDesc([i \in 1..Len(all_ids) |->
                           <<all_ids[i], Combined(vpairs, bm25_results, all_ids[i])>>])]

\* HybridRetriever._create_evidence raises: AttributeError on doc.type for a
\* Chunk, pydantic ValidationError for a confidence below 0 (Evidence: ge=0)
EvidenceRaises(doc, score) == ~HasType(doc) \/ Min(SCALE, score) < 0

\* HybridRetriever._create_evidence
_create_evidence(doc, score) ==
    [id |-> doc.id, type |-> doc.type, confidence |-> Min(SCALE, score)]

\* the <<doc, score>> pairs retrieve turns into Evidence, in order
RetrievePlan(documents, merged, k) ==
    LET top == Take(merged, k)
        rankedIdx == SelectIn([i \in 1..Len(top) |-> i],
                              {i \in 1..Len(top) : DictHas(documents, top[i][1])})
        ranked == [j \in 1..Len(rankedIdx) |->
                      <<DictGet(documents, top[rankedIdx[j]][1]), top[rankedIdx[j]][2]>>]
        added_ids == {ranked[j][1].id : j \in 1..Len(ranked)}
        restKeys == SelectIn(documents.keys, Range(documents.keys) \ added_ids)
        pad == [j \in 1..Min(k - Len(ranked), Len(restKeys)) |->
                   <<DictGet(documents, restKeys[j]), FlatConfidence>>]
    IN  IF Len(ranked) < k THEN ranked \o pad ELSE ranked

FallbackPlan(documents, k) ==
    [j \in 1..Min(k, Len(documents.keys)) |-> <<documents.val[j], FlatConfidence>>]

\* retrieve if the keyword candidates, the fallback and the padding were
\* checked against the filter as the vector candidates are
RetrieveAllFiltered(r, vector_results, query, k, filter, iterB, iterM) ==
    LET matching == {id \in Range(r.documents.keys) :
                        FilterMatch([type |-> DictGet(r.documents, id).type], filter)}
        kept == SelectIn(r.documents.keys, matching)
        documents == [keys |-> kept,
                      val |-> [i \in 1..Len(kept) |-> DictGet(r.documents, kept[i])]]
        bs == BM25Search(r.bm25_retriever, query, BM25_K, iterB)
        found == IF bs.raised THEN <<>> ELSE bs.results
        bm25_results == SelectIn(found, {p \in Range(found) : p[1] \in matching})
        both_empty == vector_results = <<>> /\ bm25_results = <<>>
        merged == _merge_results(vector_results, bm25_results, iterM)
        plan == IF both_empty THEN FallbackPlan(documents, k)
                ELSE IF merged.raised THEN <<>>
                ELSE RetrievePlan(documents, merged.items, k)
        raised == \/ (~both_empty /\ merged.raised)
                  \/ \E j \in 1..Len(plan) : EvidenceRaises(plan[j][1], plan[j][2])
        base == [op |-> "retrieve", query |-> query, k |-> k, filter |-> filter,
                 vector_results |-> <<>>, bm25_results |-> <<>>,
                 bm25_raised |-> FALSE, merged |-> <<>>, path |-> "empty",
                 raised |-> FALSE, evidence_list |-> <<>>]
    IN  IF r.documents.keys = <<>> THEN base
        ELSE [base EXCEPT
                !.vector_results = vector_results,
                !.bm25_results = bm25_results,
                !.bm25_raised = bs.raised,
                !.path = IF both_empty THEN "fallback" ELSE "merged",
                !.merged = IF both_empty \/ merged.raised THEN <<>> ELSE merged.items,
                !.raised = raised,
                !.evidence_list = IF raised THEN <<>>
                    ELSE [j \in 1..Len(plan) |-> _create_evidence(plan[j][1], plan[j][2])]]

\* HybridRetriever.retrieve on retriever r from the keyword search on, the
\* vector sub-search having produced vector_results ([] when it raised).
\* iterB, iterM: set enumeration orders.
RetrieveFrom(r, vector_results, query, k, filter, iterB, iterM) ==
    LET bs == BM25Search(r.bm25_retriever, query, BM25_K, iterB)
        bm25_results == IF bs.raised THEN <<>> ELSE bs.results
        both_empty == vector_results = <<>> /\ bm25_results = <<>>
        merged == _merge_results(vector_results, bm25_results, iterM)
        plan == IF both_empty THEN FallbackPlan(r.documents, k)
                ELSE IF merged.raised THEN <<>>
                ELSE RetrievePlan(r.documents, merged.items, k)
        raised == \/ (~both_empty /\ merged.raised)
                  \/ \E j \in 1..Len(plan) : EvidenceRaises(plan[j][1], plan[j][2])
        base == [op |-> "retrieve", query |-> query, k |-> k, filter |-> filter,
                 vector_results |-> <<>>, bm25_results |-> <<>>,
                 bm25_raised |-> FALSE, merged |-> <<>>, path |-> "empty",
                 raised |-> FALSE, evidence_list |-> <<>>]
    IN  IF r.documents.keys = <<>> THEN base
        ELSE [base EXCEPT
                !.vector_results = vector_results,
                !.bm25_results = bm25_results,
                !.bm25_raised = bs.raised,
                !.path = IF both_empty THEN "fallback" ELSE "merged",
                !.merged = IF both_empty \/ merged.raised THEN <<>> ELSE merged.items,
                !.raised = raised,
                !.evidence_list = IF raised THEN <<>>
                    ELSE [j \in 1..Len(plan) |-> _create_evidence(plan[j][1], plan[j][2])]]

\* HybridRetriever.retrieve on retriever r and vector index idx, query_embedding
\* being what embed_text(query) returned.
\* embedFault: embed_text raises; iterB, iterM: set enumeration orders.
RetrieveWith(r, idx, query, query_embedding, k, filter, embedFault, iterB, iterM) ==
    RetrieveFrom(r, IF embedFault THEN <<>>
                    ELSE FaissSearch(idx, query_embedding, VECTOR_K, filter),
                 query, k, filter, iterB, iterM)

\* HybridRetriever.retrieve with the provider in its model tier
Retrieve(r, idx, query, k, filter, embedFault, iterB, iterM) ==
    RetrieveWith(r, idx, query, EmbedText(query), k, filter, embedFault, iterB, iterM)

\* the ids, texts and metadata index_documents hands to the vector index
MetaOfDoc(doc) == IF HasType(doc) THEN [type |-> doc.type] ELSE NoMeta

\* HybridRetriever.__init__ raises AttributeError on chunk.chunk_id when the
\* chunk store holds DocumentChunk objects
ConstructRaises(existing_chunks) ==
    \E i \in 1..Len(existing_chunks) : ~HasChunkId(existing_chunks[i])

\* the retriever built by HybridRetriever.__init__ (lastDocs and vecFailed
\* are history: the last list given to index_documents, and whether its
\* embedding or vector insertion failed)
NewRetriever(existing_chunks) ==
    [ live |-> TRUE,
      documents |-> DictOfDocs(existing_chunks),
      bm25_retriever |-> IF existing_chunks # <<>>
                         THEN BM25IndexDocuments(BM25New, existing_chunks)
                         ELSE BM25New,
      indexed |-> FALSE,
      lastDocs |-> <<>>,
      vecFailed |-> FALSE ]

----------------------------------------------------------------------------
(* Operations on a startup: chunk store, retriever construction, indexing   *)
(* and retrieval                                                            *)

Faults == {"none", "embed", "convert", "add"}

Filters == {NoFilter, [type |-> "slide"]}

\* orders in which a process may enumerate a set of chunk ids: the order
\* follows the string hashes, which are drawn when the process starts
IterOrders == {<<"a", "b", "c">>, <<"c", "b", "a">>}

Init ==
    /\ chunk_storage = <<>>
    /\ index_cache = NoIndex
    /\ retriever = NoRetriever
    /\ result = NoResult
    /\ nIndexed = 0
    /\ nBuilt = 0
    /\ nVecOps = 0
    /\ matching_engine = NoRemote
    /\ LoadedOnce
    /\ hash_order \in IterOrders

\* chunk_store.store_chunks
StoreChunks(chunks) ==
    /\ result.op # "retrieve"
    /\ nBuilt < MaxBuilds
    /\ chunk_storage' = chunks
    /\ result' = [op |-> "store_chunks"]
    /\ UNCHANGED <<index_cache, retriever, nIndexed, nBuilt, nVecOps>>
    /\ UNCHANGED auxVars

\* HybridRetriever(startup_id): get_index creates the cached vector index on
\* first use, then the chunks of the store are loaded into the keyword index
Construct ==
    /\ result.op # "retrieve"
    /\ nBuilt < MaxBuilds
    /\ nBuilt' = nBuilt + 1
    /\ index_cache' = IF index_cache = NoIndex THEN FaissNew(DefaultDim) ELSE index_cache
    /\ IF ConstructRaises(chunk_storage)
       THEN /\ retriever' = retriever
            /\ result' = [op |-> "construct", raised |-> TRUE]
       ELSE /\ retriever' = NewRetriever(chunk_storage)
            /\ result' = [op |-> "construct", raised |-> FALSE]
    /\ UNCHANGED <<chunk_storage, nIndexed, nVecOps>>
    /\ UNCHANGED auxVars

\* the retriever after index_documents(documents): known chunks and keyword
\* index (built before the embedding step)
IndexedRetriever(r, documents, fault) ==
    [r EXCEPT
        !.documents = DictOfDocs(documents),
        !.bm25_retriever = BM25IndexDocuments(@, documents),
        !.indexed = TRUE,
        !.lastDocs = documents,
        !.vecFailed = fault # "none"]

\* the vector index after index_documents(documents), embeddings being what
\* embed_batch returned for the texts of documents
IndexedVectors(idx, documents, embeddings, fault) ==
    IF fault = "embed" THEN idx
    ELSE FaissAddVectors(idx, embeddings,
            [i \in 1..Len(documents) |-> documents[i].id],
            [i \in 1..Len(documents) |-> MetaOfDoc(documents[i])],
            fault)

\* HybridRetriever.index_documents(documents).  fault names what the
\* environment makes fail: "embed" (embed_batch raises, the exception reaches
\* the caller), "convert" or "add" (inside FAISSIndex.add_vectors, swallowed
\* there), or "none".
IndexDocuments(documents, fault) ==
    /\ retriever.live
    /\ result.op # "retrieve"
    /\ nIndexed < MaxIndexCalls
    /\ nIndexed' = nIndexed + 1
    /\ retriever' = IndexedRetriever(retriever, documents, fault)
    /\ index_cache' = IndexedVectors(index_cache, documents,
                           EmbedBatch([i \in 1..Len(documents) |-> TextOf(documents[i])]),
                           fault)
    /\ result' = [op |-> "index_documents", raised |-> fault = "embed"]
    /\ UNCHANGED <<chunk_storage, nBuilt, nVecOps>>
    /\ UNCHANGED auxVars

\* HybridRetriever.retrieve(query, k, filter): the call
DoRetrieve(query, k, filter, embedFault, iterB, iterM) ==
    /\ retriever.live
    /\ result.op # "retrieve"
    /\ result' = Retrieve(retriever, index_cache, query, k, filter, embedFault, iterB, iterM)
    /\ UNCHANGED <<chunk_storage, index_cache, retriever, nIndexed, nBuilt, nVecOps>>
    /\ UNCHANGED auxVars

\* the caller of retrieve takes the returned list (or the exception)
ReturnRetrieve ==
    /\ result.op = "retrieve"
    /\ result' = NoResult
    /\ UNCHANGED <<chunk_storage, index_cache, retriever, nIndexed, nBuilt, nVecOps>>
    /\ UNCHANGED auxVars

Next ==
    \/ \E chunks \in ChunkLists : StoreChunks(chunks)
    \/ Construct
    \/ \E documents \in ChunkLists, fault \in Faults : IndexDocuments(documents, fault)
    \/ \E query \in Queries, k \in 1..MaxK, filter \in Filters, embedFault \in BOOLEAN :
          DoRetrieve(query, k, filter, embedFault, hash_order, hash_order)
    \/ ReturnRetrieve

Spec == Init /\ [][Next]_vars

----------------------------------------------------------------------------
(* Operations on one FAISSIndex instance, called directly                   *)

MaxRows == 4

VecPool == {Vec(EmbeddingDim, 0), Vec(EmbeddingDim, 2), Vec(DefaultDim, 1)}

VectorLists == {<<>>} \cup {<<u>> : u \in VecPool} \cup {<<u, v>> : u, v \in VecPool}

IdLists == {<<"a">>, <<"b">>, <<"c">>, <<"a", "b">>, <<"b", "c">>}

MetaForId(id) == [type |-> IF id = "a" THEN "slide" ELSE "text"]

\* ids a search can return: the external ids mapped to rows of the flat store
Stored(f) == {f.id_map[i] : i \in {j \in DOMAIN f.id_map : j < Len(f.rows)}}

\* every id the index object holds anywhere
HeldIds(f) ==
    Stored(f) \cup {f.id_map[i] : i \in DOMAIN f.id_map}
              \cup DOMAIN f.metadata_map \cup Range(f.vector_map.keys)

\* every vector the index object holds: the flat store and vector_map
HeldVectors(f) == Range(f.rows) \cup Range(f.vector_map.val)

\* FAISSIndex(): the default width is that of all-MiniLM-L6-v2
InitFaiss ==
    /\ chunk_storage = <<>>
    /\ index_cache = FaissNew(EmbeddingDim)
    /\ retriever = NoRetriever
    /\ result = NoResult
    /\ nIndexed = 0
    /\ nBuilt = 0
    /\ nVecOps = 0
    /\ matching_engine = NoRemote
    /\ LoadedOnce
    /\ hash_order = IdOrder

\* await index.add_vectors(vectors, ids, metadata)
AddVectors(vectors, ids, fault) ==
    LET metadata == [i \in 1..Len(ids) |-> MetaForId(ids[i])]
        after == FaissAddVectors(index_cache, vectors, ids, metadata, fault)
    IN  /\ result.op = "none"
        /\ nVecOps < MaxVecOps
        /\ Len(after.rows) <= MaxRows
        /\ nVecOps' = nVecOps + 1
        /\ index_cache' = after
        /\ result' = [op |-> "add_vectors", vectors |-> vectors, ids |-> ids,
                      raised |-> FALSE, returned |-> TRUE,
                      inserted |-> vectors # <<>> /\ ~Ragged(vectors) /\ fault = "none",
                      widthBefore |-> index_cache.dimension,
                      unchanged |-> after = index_cache]
        /\ UNCHANGED <<chunk_storage, retriever, nIndexed, nBuilt>>
        /\ UNCHANGED auxVars

\* await index.search(query_vector, k, filter)
Search(q, k, filter) ==
    /\ result.op = "none"
    /\ result' = [op |-> "search", q |-> q, k |-> k, filter |-> filter,
                  results |-> FaissSearch(index_cache, q, k, filter)]
    /\ UNCHANGED <<chunk_storage, index_cache, retriever, nIndexed, nBuilt, nVecOps>>
    /\ UNCHANGED auxVars

\* await index.delete(ids)
Delete(ids) ==
    /\ result.op = "none"
    /\ nVecOps < MaxVecOps
    /\ nVecOps' = nVecOps + 1
    /\ index_cache' = FaissDelete(index_cache, ids)
    /\ result' = [op |-> "delete", ids |-> ids, returned |-> TRUE,
                  storedBefore |-> Stored(index_cache)]
    /\ UNCHANGED <<chunk_storage, retriever, nIndexed, nBuilt>>
    /\ UNCHANGED auxVars

\* the caller takes the return value
ReturnVec ==
    /\ result.op \in {"add_vectors", "search", "delete"}
    /\ result' = NoResult
    /\ UNCHANGED <<chunk_storage, index_cache, retriever, nIndexed, nBuilt, nVecOps>>
    /\ UNCHANGED auxVars

NextFaiss ==
    \/ \E vectors \in VectorLists, ids \in IdLists, fault \in {"none", "convert", "add"} :
          AddVectors(vectors, ids, fault)
    \/ \E q \in VecPool, k \in 1..MaxK, filter \in Filters : Search(q, k, filter)
    \/ \E ids \in (SUBSET Ids) \ {{}} : Delete(ids)
    \/ ReturnVec

SpecFaiss == InitFaiss /\ [][NextFaiss]_vars

----------------------------------------------------------------------------
(* MatchingEngineIndex and HybridVectorIndex (USE_MATCHING_ENGINE is True)  *)

MaxHybridOps == 3

\* what the remote service does with one call: it answers, it raises, or
\* (find_neighbors only) it answers without neighbours
RemoteOutcomes == {"ok", "raise", "empty"}

\* MatchingEngineIndex.__init__ with the client initialised; datapoints is
\* the content of the remote index: datapoint_id -> feature vector, restricts
MatchingEngineNew == [enabled |-> TRUE, datapoints |-> EmptyDict]

RECURSIVE Upsert(_, _, _, _, _)
\* index.upsert_datapoints(datapoints): one datapoint per zip(ids, vectors)
Upsert(points, vectors, ids, metadata, i) ==
    IF i >= Min(Len(ids), Len(vectors)) THEN points
    ELSE LET meta == IF i < Len(metadata) THEN metadata[i + 1] ELSE NoMeta
         IN  Upsert(DictSet(points, ids[i + 1], [vec |-> vectors[i + 1], restricts |-> meta]),
                    vectors, ids, metadata, i + 1)

\* MatchingEngineIndex.add_vectors: every exception is caught (returns False)
MatchingEngineAddVectors(me, vectors, ids, metadata, outcome) ==
    IF outcome # "ok" THEN me
    ELSE [me EXCEPT !.datapoints = Upsert(@, vectors, ids, metadata, 0)]

\* the largest distance the endpoint reports: score = 1.0 - distance takes
\* the distance for a cosine distance, which lies between 0 and 2
MaxDistance == 2

\* index_endpoint.find_neighbors: the neighbor_count nearest datapoints that
\* pass the restricts, as <<datapoint_id, distance>> in increasing distance
FindNeighbors(me, q, k, filter) ==
    LET keys == me.datapoints.keys
        ok == {i \in 1..Len(keys) :
                 /\ me.datapoints.val[i].vec.dim = q.dim
                 /\ FilterMatch(me.datapoints.val[i].restricts, filter)}
        idx == SelectIn([i \in 1..Len(keys) |-> i], ok)
        cand == [j \in 1..Len(idx) |->
                    <<keys[idx[j]], 0 - L2(me.datapoints.val[idx[j]].vec, q)>>]
        sorted == SortDesc(cand)
    IN  [j \in 1..Min(k, Len(sorted)) |-> <<sorted[j][1], Min(0 - sorted[j][2], MaxDistance)>>]

\* MatchingEngineIndex.search: score = 1.0 - distance, metadata = {};
\* every exception is caught inside and [] returned
MatchingEngineSearch(me, q, k, filter, outcome) ==
    IF outcome # "ok" THEN <<>>
    ELSE LET nb == FindNeighbors(me, q, k, filter)
         IN  [j \in 1..Len(nb) |->
                 [id |-> nb[j][1], score |-> SCALE - nb[j][2] * SCALE, metadata |-> NoMeta]]

\* MatchingEngineIndex.delete
MatchingEngineDelete(me, ids, outcome) ==
    IF outcome # "ok" THEN me
    ELSE LET keep == SelectIn(me.datapoints.keys, Range(me.datapoints.keys) \ ids)
         IN  [me EXCEPT !.datapoints =
                 [keys |-> keep, val |-> [i \in 1..Len(keep) |-> DictGet(me.datapoints, keep[i])]]]

\* HybridVectorIndex.search without the fallback: a configured remote
\* backend's answer is returned even when it is empty
HybridVectorIndexSearchNoFallback(local, me, q, k, filter, outcome) ==
    IF me.enabled THEN MatchingEngineSearch(me, q, k, filter, outcome)
    ELSE FaissSearch(local, q, k, filter)

\* HybridVectorIndex.search: the remote results if there are any, else FAISS
HybridVectorIndexSearch(local, me, q, k, filter, outcome) ==
    LET results == IF me.enabled THEN MatchingEngineSearch(me, q, k, filter, outcome) ELSE <<>>
    IN  IF results # <<>> THEN results ELSE FaissSearch(local, q, k, filter)

\* the batches given to HybridVectorIndex.add_vectors: empty, one width,
\* the other width, and rows of unequal width
HybridVectorLists ==
    { <<>>,
      <<Vec(EmbeddingDim, 0)>>,
      <<Vec(EmbeddingDim, 0), Vec(EmbeddingDim, 2)>>,
      <<Vec(DefaultDim, 1)>>,
      <<Vec(EmbeddingDim, 2), Vec(DefaultDim, 1)>> }

HybridIdLists == {<<"a">>, <<"a", "b">>, <<"b", "c">>}

\* get_index(startup_id): HybridVectorIndex(768) with both backends
InitHybrid ==
    /\ chunk_storage = <<>>
    /\ index_cache = FaissNew(DefaultDim)
    /\ retriever = NoRetriever
    /\ result = NoResult
    /\ nIndexed = 0
    /\ nBuilt = 0
    /\ nVecOps = 0
    /\ matching_engine = MatchingEngineNew
    /\ LoadedOnce
    /\ hash_order = IdOrder

\* await HybridVectorIndex.add_vectors(vectors, ids, metadata)
HybridAddVectors(vectors, ids, fault, outcome) ==
    LET metadata == [i \in 1..Len(ids) |-> MetaForId(ids[i])]
        after == FaissAddVectors(index_cache, vectors, ids, metadata, fault)
    IN  /\ result.op = "none"
        /\ nVecOps < MaxHybridOps
        /\ nVecOps' = nVecOps + 1
        /\ index_cache' = after
        /\ matching_engine' = MatchingEngineAddVectors(matching_engine, vectors, ids,
                                                       metadata, outcome)
        /\ result' = [op |-> "hybrid_add", vectors |-> vectors, ids |-> ids,
                      fault |-> fault, outcome |-> outcome, raised |-> FALSE,
                      localBefore |-> index_cache]
        /\ UNCHANGED <<chunk_storage, retriever, nIndexed, nBuilt>>
        /\ UNCHANGED embedVars

\* await HybridVectorIndex.search(query_vector, k, filter), up to the call of
\* index_endpoint.find_neighbors, which blocks until the remote backend
\* answers: the call is given no timeout and is not awaited with one
HybridSearch(q, k, filter) ==
    /\ result.op = "none"
    /\ result' = [op |-> "find_neighbors", q |-> q, k |-> k, filter |-> filter]
    /\ UNCHANGED <<chunk_storage, index_cache, retriever, nIndexed, nBuilt, nVecOps,
                   matching_engine>>
    /\ UNCHANGED embedVars

\* the remote backend answers the pending find_neighbors call, and
\* HybridVectorIndex.search runs to its return
RemoteAnswers(outcome) ==
    /\ result.op = "find_neighbors"
    /\ result' = [op |-> "hybrid_search", q |-> result.q, k |-> result.k,
                  filter |-> result.filter, outcome |-> outcome, raised |-> FALSE,
                  remote_results |-> MatchingEngineSearch(matching_engine, result.q,
                                                          result.k, result.filter, outcome),
                  results |-> HybridVectorIndexSearch(index_cache, matching_engine,
                                  result.q, result.k, result.filter, outcome)]
    /\ UNCHANGED <<chunk_storage, index_cache, retriever, nIndexed, nBuilt, nVecOps,
                   matching_engine>>
    /\ UNCHANGED embedVars

\* await HybridVectorIndex.delete(ids)
HybridDelete(ids, outcome) ==
    /\ result.op = "none"
    /\ nVecOps < MaxHybridOps
    /\ nVecOps' = nVecOps + 1
    /\ index_cache' = FaissDelete(index_cache, ids)
    /\ matching_engine' = MatchingEngineDelete(matching_engine, ids, outcome)
    /\ result' = [op |-> "hybrid_delete", ids |-> ids, outcome |-> outcome]
    /\ UNCHANGED <<chunk_storage, retriever, nIndexed, nBuilt>>
    /\ UNCHANGED embedVars

\* the caller takes the return value
ReturnHybrid ==
    /\ result.op \in {"hybrid_add", "hybrid_search", "hybrid_delete"}
    /\ result' = NoResult
    /\ UNCHANGED <<chunk_storage, index_cache, retriever, nIndexed, nBuilt, nVecOps,
                   matching_engine>>
    /\ UNCHANGED embedVars

NextHybrid ==
    \/ \E vectors \in HybridVectorLists, ids \in HybridIdLists,
          fault \in {"none", "convert", "add"}, outcome \in {"ok", "raise"} :
          HybridAddVectors(vectors, ids, fault, outcome)
    \/ \E q \in VecPool, k \in 1..MaxK, filter \in Filters : HybridSearch(q, k, filter)
    \/ \E outcome \in RemoteOutcomes : RemoteAnswers(outcome)
    \/ \E ids \in (SUBSET Ids) \ {{}}, outcome \in {"ok", "raise"} : HybridDelete(ids, outcome)
    \/ ReturnHybrid

SpecHybrid == InitHybrid /\ [][NextHybrid]_vars

\* the steps of the program itself are taken when they can be; nothing makes
\* the remote backend answer
SpecHybridFair ==
    /\ SpecHybrid
    /\ WF_vars(ReturnHybrid)
    /\ WF_vars(\E q \in VecPool, k \in 1..MaxK, filter \in Filters : HybridSearch(q, k, filter))

----------------------------------------------------------------------------
(* LocalEmbeddingService(): concurrent constructions, one step per access   *)
(* to the class attributes                                                  *)

MaxConstructions == 2

\* the variables no step of a construction touches
idxVars == <<chunk_storage, index_cache, retriever, result, nIndexed, nBuilt, nVecOps,
             matching_engine, service, twin, hash_order>>

\* a fresh process: no provider was built yet
InitLoad ==
    /\ chunk_storage = <<>>
    /\ index_cache = NoIndex
    /\ retriever = NoRetriever
    /\ result = NoResult
    /\ nIndexed = 0
    /\ nBuilt = 0
    /\ nVecOps = 0
    /\ matching_engine = NoRemote
    /\ _shared_model = "None"
    /\ _model_loading = FALSE
    /\ nLoads = 0
    /\ pc = [t \in Threads |-> Idle]
    /\ service = NoService
    /\ twin = NoTwin
    /\ hash_order = IdOrder

\* thread t moves to position at
Goto(t, at) == pc' = [pc EXCEPT ![t].at = at]

\* LocalEmbeddingService.__init__ up to the call of _load_model
BeginConstruct(t) ==
    /\ pc[t].at = "idle"
    /\ pc[t].built < MaxConstructions
    /\ pc' = [pc EXCEPT ![t].at = "test_model", ![t].exc = FALSE]
    /\ UNCHANGED <<_shared_model, _model_loading, nLoads>>
    /\ UNCHANGED idxVars

\* `if LocalEmbeddingService._shared_model is None`
TestModel(t) ==
    /\ pc[t].at = "test_model"
    /\ Goto(t, IF _shared_model = "None" THEN "test_loading" ELSE "assign")
    /\ UNCHANGED <<_shared_model, _model_loading, nLoads>>
    /\ UNCHANGED idxVars

\* `and not LocalEmbeddingService._model_loading`
TestLoading(t) ==
    /\ pc[t].at = "test_loading"
    /\ Goto(t, IF ~_model_loading THEN "set_loading" ELSE "assign")
    /\ UNCHANGED <<_shared_model, _model_loading, nLoads>>
    /\ UNCHANGED idxVars

\* `LocalEmbeddingService._model_loading = True`
SetLoading(t) ==
    /\ pc[t].at = "set_loading"
    /\ _model_loading' = TRUE
    /\ Goto(t, "import")
    /\ UNCHANGED <<_shared_model, nLoads>>
    /\ UNCHANGED idxVars

\* `from sentence_transformers import SentenceTransformer`: an ImportError
\* is re-raised as ExternalServiceError
Import(t, importable) ==
    /\ pc[t].at = "import"
    /\ pc' = [pc EXCEPT ![t].at = IF importable THEN "load" ELSE "finally",
                        ![t].exc = ~importable]
    /\ UNCHANGED <<_shared_model, _model_loading, nLoads>>
    /\ UNCHANGED idxVars

\* `_shared_model = SentenceTransformer(self.model_name)`: the model is
\* loaded, or the load raises (not an ImportError: it propagates)
LoadModel(t, loads) ==
    /\ pc[t].at = "load"
    /\ pc' = [pc EXCEPT ![t].at = "finally", ![t].exc = ~loads]
    /\ _shared_model' = IF loads THEN "model" ELSE _shared_model
    /\ nLoads' = IF loads THEN nLoads + 1 ELSE nLoads
    /\ UNCHANGED _model_loading
    /\ UNCHANGED idxVars

\* `finally: LocalEmbeddingService._model_loading = False`; a pending
\* exception leaves the constructor here
Finally(t) ==
    /\ pc[t].at = "finally"
    /\ _model_loading' = FALSE
    /\ Goto(t, IF pc[t].exc THEN "idle" ELSE "assign")
    /\ UNCHANGED <<_shared_model, nLoads>>
    /\ UNCHANGED idxVars

\* `self.model = LocalEmbeddingService._shared_model`: the provider is built
Assign(t) ==
    /\ pc[t].at = "assign"
    /\ pc' = [pc EXCEPT ![t].at = "idle", ![t].built = @ + 1]
    /\ UNCHANGED <<_shared_model, _model_loading, nLoads>>
    /\ UNCHANGED idxVars

NextLoad ==
    \E t \in Threads :
        \/ BeginConstruct(t)
        \/ TestModel(t)
        \/ TestLoading(t)
        \/ SetLoading(t)
        \/ \E importable \in BOOLEAN : Import(t, importable)
        \/ \E loads \in BOOLEAN : LoadModel(t, loads)
        \/ Finally(t)
        \/ Assign(t)

SpecLoad == InitLoad /\ [][NextLoad]_vars

----------------------------------------------------------------------------
(* LocalEmbeddingService: the three tiers of embed_batch, single-threaded   *)

MaxEmbedCalls == 3

\* the words of the model that are in scikit-learn's English stop word list
EnglishStop == {"the", "of", "this", "has"}

RECURSIVE TfidfTokens(_)
\* the analyzer of TfidfVectorizer(stop_words='english'): lower-cased words
\* of two or more characters that are not stop words
TfidfTokens(text) ==
    IF text = <<>> THEN <<>>
    ELSE IF Lower(Head(text)) \in EnglishStop THEN TfidfTokens(Tail(text))
    ELSE <<Lower(Head(text))>> \o TfidfTokens(Tail(text))

\* ngram_range=(1, 2): the words and the pairs of adjacent words of a text
Terms(text) ==
    LET tk == TfidfTokens(text)
    IN  {<<tk[i]>> : i \in 1..Len(tk)} \cup {<<tk[i], tk[i + 1]>> : i \in 1..(Len(tk) - 1)}

\* alphabetical rank of a word, and of a term (a word sorts before the
\* pairs that begin with it)
WordRank(w) ==
    CASE w = "200" -> 1
      [] w = "40" -> 2
      [] w = "engineers" -> 3
      [] w = "grew" -> 4
      [] w = "growth" -> 5
      [] w = "ox" -> 6
      [] w = "revenue" -> 7
      [] w = "team" -> 8
      [] w = "year" -> 9

TermKey(term) == WordRank(term[1]) * 10 + (IF Len(term) = 2 THEN WordRank(term[2]) ELSE 0)

\* vectorizer.vocabulary_[term]: the column of a term, columns being the
\* fitted terms in alphabetical order (first column 1)
Column(V, term) == Cardinality({u \in V : TermKey(u) <= TermKey(term)})

\* tfidf_vectorizer.fit(texts): the fitted vocabulary
FitVocabulary(texts) == UNION {Terms(texts[i]) : i \in 1..Len(texts)}

\* the row of transform(texts) for one text, padded to embedding_dim: its
\* non-zero columns are those of the fitted terms the text contains; the
\* row is represented by the sum of the numbers of these columns
TfidfVector(V, text) ==
    [ dim |-> EmbeddingDim,
      x |-> Cardinality({p \in (Terms(text) \cap V) \X V : TermKey(p[2]) <= TermKey(p[1])}),
      cols |-> {Column(V, term) : term \in Terms(text) \cap V} ]

\* a number for each word as written (sha256 sees the text as it is)
RawCode(w) ==
    CASE w = "revenue" -> 1
      [] w = "team" -> 2
      [] w = "growth" -> 3
      [] w = "ox" -> 4
      [] w = "the" -> 5
      [] w = "of" -> 6
      [] w = "Revenue" -> 7
      [] w = "The" -> 8
      [] w = "Growth" -> 9
      [] w = "grew" -> 10
      [] w = "200" -> 11
      [] w = "this" -> 12
      [] w = "year" -> 13
      [] w = "has" -> 14
      [] w = "40" -> 15
      [] w = "engineers" -> 16

\* a number that stands for the text as written
TextCode(text) == 10 + SeqSum([i \in 1..Len(text) |-> i * RawCode(text[i])])

\* the first four hex digits of sha256(f"{text}_{i}"): some 16-bit number
\* fixed by the text and i
HashPrefix(text, i) == ((TextCode(text) * 31 + i) * 40503) % 65536

\* int(hash_value[:8], 16) / 2**32, then (numeric_value - 0.5) * 2, in units
\* of 1/SCALE, from the leading 16 bits of the 32
HashComponent(h) == ((h * SCALE) \div 65536) * 2 - SCALE

\* LocalEmbeddingService._hash_embeddings for one text: a deterministic
\* function of the text alone; ends are its first and last components
HashVector(text) ==
    [ dim |-> EmbeddingDim,
      x |-> 0 - TextCode(text),
      hashed |-> TRUE,
      ends |-> <<HashComponent(HashPrefix(text, 0)),
                 HashComponent(HashPrefix(text, EmbeddingDim - 1))>> ]

TfidfFaults == {"none", "import", "fit", "transform"}

\* _tfidf_embeddings where the call that fits the vectorizer returns the
\* rows without padding them to embedding_dim
TfidfUnpaddedOnFit(svc, texts, fault) ==
    LET tv == svc.tfidf_vectorizer
        hash == [i \in 1..Len(texts) |-> HashVector(texts[i])]
        created == [created |-> TRUE, fitted |-> FALSE, vocabulary_ |-> {}]
        V == FitVocabulary(texts)
        fitRaises == fault = "fit" \/ V = {}
        tv2 == IF tv.created THEN tv
               ELSE IF fitRaises THEN created
               ELSE [created |-> TRUE, fitted |-> TRUE, vocabulary_ |-> V]
    IN  IF fault = "import"
        THEN [service |-> svc, tier |-> "hash", vectors |-> hash]
        ELSE IF (~tv.created /\ fitRaises) \/ ~tv2.fitted \/ fault = "transform"
        THEN [service |-> [svc EXCEPT !.tfidf_vectorizer = tv2],
              tier |-> "hash", vectors |-> hash]
        ELSE [service |-> [svc EXCEPT !.tfidf_vectorizer = tv2],
              tier |-> "tfidf",
              vectors |-> [i \in 1..Len(texts) |->
                  IF tv.created THEN TfidfVector(tv2.vocabulary_, texts[i])
                  ELSE [TfidfVector(tv2.vocabulary_, texts[i])
                           EXCEPT !.dim = Cardinality(tv2.vocabulary_)]]]

\* _tfidf_embeddings where the hash of a text is salted with the state of
\* the provider's vectorizer
TfidfHashSalted(svc, texts, fault) ==
    LET tv == svc.tfidf_vectorizer
        hash == [i \in 1..Len(texts) |->
                    IF tv.created THEN HashVector(texts[i] \o <<"of">>)
                    ELSE HashVector(texts[i])]
        created == [created |-> TRUE, fitted |-> FALSE, vocabulary_ |-> {}]
        V == FitVocabulary(texts)
        fitRaises == fault = "fit" \/ V = {}
        tv2 == IF tv.created THEN tv
               ELSE IF fitRaises THEN created
               ELSE [created |-> TRUE, fitted |-> TRUE, vocabulary_ |-> V]
    IN  IF fault = "import"
        THEN [service |-> svc, tier |-> "hash", vectors |-> hash]
        ELSE IF (~tv.created /\ fitRaises) \/ ~tv2.fitted \/ fault = "transform"
        THEN [service |-> [svc EXCEPT !.tfidf_vectorizer = tv2],
              tier |-> "hash", vectors |-> hash]
        ELSE [service |-> [svc EXCEPT !.tfidf_vectorizer = tv2],
              tier |-> "tfidf",
              vectors |-> [i \in 1..Len(texts) |-> TfidfVector(tv2.vocabulary_, texts[i])]]

\* LocalEmbeddingService._tfidf_embeddings(texts) on provider svc; fault is
\* what the environment makes raise inside the try block
_tfidf_embeddings(svc, texts, fault) ==
    LET tv == svc.tfidf_vectorizer
        hash == [i \in 1..Len(texts) |-> HashVector(texts[i])]
        created == [created |-> TRUE, fitted |-> FALSE, vocabulary_ |-> {}]
        V == FitVocabulary(texts)
        fitRaises == fault = "fit" \/ V = {}
        tv2 == IF tv.created THEN tv
               ELSE IF fitRaises THEN created
               ELSE [created |-> TRUE, fitted |-> TRUE, vocabulary_ |-> V]
    IN  IF fault = "import"
        THEN [service |-> svc, tier |-> "hash", vectors |-> hash]
        ELSE IF (~tv.created /\ fitRaises) \/ ~tv2.fitted \/ fault = "transform"
        THEN [service |-> [svc EXCEPT !.tfidf_vectorizer = tv2],
              tier |-> "hash", vectors |-> hash]
        ELSE [service |-> [svc EXCEPT !.tfidf_vectorizer = tv2],
              tier |-> "tfidf",
              vectors |-> [i \in 1..Len(texts) |-> TfidfVector(tv2.vocabulary_, texts[i])]]

\* LocalEmbeddingService.embed_batch(texts); encodes: self.model.encode
\* returns (otherwise it raises and the TF-IDF tier is used)
embed_batch(svc, texts, encodes, fault) ==
    IF svc.model = "None" THEN _tfidf_embeddings(svc, texts, fault)
    ELSE IF encodes THEN [service |-> svc, tier |-> "model", vectors |-> EmbedBatch(texts)]
    ELSE _tfidf_embeddings(svc, texts, fault)

RECURSIVE PerItem(_, _, _, _)
\* [await embed_text(t) for t in texts] on provider svc: the vectors, each
\* call working on the provider state the previous call left
PerItem(svc, texts, encodes, fault) ==
    IF texts = <<>> THEN <<>>
    ELSE LET r == embed_batch(svc, <<Head(texts)>>, encodes, fault)
         IN  <<r.vectors[1]>> \o PerItem(r.service, Tail(texts), encodes, fault)

\* the texts of the model
EmbedTextLists ==
    { <<>>,
      << <<"revenue">> >>,
      << <<"revenue">>, <<"team">> >>,
      << <<"Revenue", "team">>, <<"team">> >>,
      << <<"the", "of">> >>,
      << <<"the", "of">>, <<"growth">> >> }

\* a fresh process
InitEmbed ==
    /\ chunk_storage = <<>>
    /\ index_cache = NoIndex
    /\ retriever = NoRetriever
    /\ result = NoResult
    /\ nIndexed = 0
    /\ nBuilt = 0
    /\ nVecOps = 0
    /\ matching_engine = NoRemote
    /\ _shared_model = "None"
    /\ _model_loading = FALSE
    /\ nLoads = 0
    /\ pc = [t \in Threads |-> Idle]
    /\ service = NoService
    /\ twin = NoTwin
    /\ hash_order = IdOrder

\* what a provider call leaves alone
restVars == <<chunk_storage, index_cache, retriever, nIndexed, nBuilt, matching_engine,
              _model_loading, pc, twin, hash_order>>

\* get_embedding_service() -> LocalEmbeddingService(): _load_model, then
\* self.model = _shared_model.  A failed import raises ExternalServiceError,
\* a failed model load raises its own exception; lru_cache keeps no result.
ConstructService(importable, loads) ==
    LET mustLoad == _shared_model = "None" /\ ~_model_loading
        raises == mustLoad /\ (~importable \/ ~loads)
    IN  /\ result.op = "none"
        /\ ~service.live
        /\ nVecOps < MaxEmbedCalls
        /\ nVecOps' = nVecOps + 1
        /\ _shared_model' = IF mustLoad /\ ~raises THEN "model" ELSE _shared_model
        /\ nLoads' = IF mustLoad /\ ~raises THEN nLoads + 1 ELSE nLoads
        /\ service' = IF raises THEN service ELSE NewService(_shared_model')
        /\ result' = [op |-> "construct_service", raised |-> raises,
                      importable |-> importable, loads |-> loads]
        /\ UNCHANGED restVars

\* await service.embed_batch(texts)
CallEmbedBatch(texts, encodes, fault) ==
    LET r == embed_batch(service, texts, encodes, fault)
    IN  /\ result.op = "none"
        /\ service.live
        /\ nVecOps < MaxEmbedCalls
        /\ nVecOps' = nVecOps + 1
        /\ service' = r.service
        /\ result' = [op |-> "embed_batch", texts |-> texts, encodes |-> encodes,
                      fault |-> fault, raised |-> FALSE, tier |-> r.tier,
                      vectors |-> r.vectors, before |-> service]
        /\ UNCHANGED <<_shared_model, nLoads>>
        /\ UNCHANGED restVars

\* await service.embed_text(text): embeddings[0] if embeddings else []
CallEmbedText(text, encodes, fault) ==
    LET r == embed_batch(service, <<text>>, encodes, fault)
    IN  /\ result.op = "none"
        /\ service.live
        /\ nVecOps < MaxEmbedCalls
        /\ nVecOps' = nVecOps + 1
        /\ service' = r.service
        /\ result' = [op |-> "embed_text", texts |-> <<text>>, encodes |-> encodes,
                      fault |-> fault, raised |-> FALSE, tier |-> r.tier,
                      vectors |-> IF r.vectors # <<>> THEN <<r.vectors[1]>> ELSE <<>>,
                      before |-> service]
        /\ UNCHANGED <<_shared_model, nLoads>>
        /\ UNCHANGED restVars

\* the caller takes the vectors (or the exception)
ReturnEmbed ==
    /\ result.op \in {"construct_service", "embed_batch", "embed_text"}
    /\ result' = NoResult
    /\ UNCHANGED <<_shared_model, nLoads, nVecOps, service>>
    /\ UNCHANGED restVars

NextEmbed ==
    \/ \E importable, loads \in BOOLEAN : ConstructService(importable, loads)
    \/ \E texts \in EmbedTextLists, encodes \in BOOLEAN, fault \in TfidfFaults :
          CallEmbedBatch(texts, encodes, fault)
    \/ \E texts \in EmbedTextLists \ {<<>>}, encodes \in BOOLEAN, fault \in TfidfFaults :
          CallEmbedText(texts[1], encodes, fault)
    \/ ReturnEmbed

SpecEmbed == InitEmbed /\ [][NextEmbed]_vars

----------------------------------------------------------------------------
(* Two startups, A and B, on one process.  The variables of the retriever   *)
(* hold startup B in the run where A is indexed and queried as well; twin   *)
(* holds startup A of that run, and startup B and the provider of the run   *)
(* that differs only in that A is never used.                               *)

ChunkListsA == {DocsB("DocumentChunk"), DocsC("DocumentChunk")}

ChunkListsB == {DocsA("DocumentChunk"), DocsD("DocumentChunk")}

\* both retrievers were constructed (empty chunk store), the provider built
InitTwo ==
    /\ chunk_storage = <<>>
    /\ index_cache = FaissNew(DefaultDim)
    /\ retriever = NewRetriever(<<>>)
    /\ result = NoResult
    /\ nIndexed = 0
    /\ nBuilt = 0
    /\ nVecOps = 0
    /\ matching_engine = NoRemote
    /\ _shared_model = "model"
    /\ _model_loading = FALSE
    /\ nLoads = 1
    /\ pc = [t \in Threads |-> Idle]
    /\ service = NewService("model")
    /\ twin = [live |-> TRUE,
               a_index |-> FaissNew(DefaultDim), a_retriever |-> NewRetriever(<<>>),
               index_cache |-> FaissNew(DefaultDim), retriever |-> NewRetriever(<<>>),
               service |-> NewService("model")]
    /\ hash_order \in IterOrders

twoRest == <<chunk_storage, nBuilt, matching_engine, _shared_model, _model_loading,
             nLoads, pc, hash_order>>

\* HybridRetriever(A).index_documents(documents): only in the first run
IndexA(documents, encodes, fault) ==
    LET e == embed_batch(service, [i \in 1..Len(documents) |-> TextOf(documents[i])],
                         encodes, fault)
    IN  /\ result.op = "none"
        /\ nIndexed < MaxIndexCalls
        /\ nIndexed' = nIndexed + 1
        /\ service' = e.service
        /\ twin' = [twin EXCEPT
                !.a_retriever = IndexedRetriever(@, documents, "none"),
                !.a_index = IndexedVectors(@, documents, e.vectors, "none")]
        /\ result' = [op |-> "index_a"]
        /\ UNCHANGED <<index_cache, retriever, nVecOps>>
        /\ UNCHANGED twoRest

\* HybridRetriever(A).retrieve(query, k): only in the first run
RetrieveA(query, k, encodes, fault, iter) ==
    LET e == embed_batch(service, <<query>>, encodes, fault)
    IN  /\ result.op = "none"
        /\ nVecOps < MaxVecOps
        /\ nVecOps' = nVecOps + 1
        /\ service' = IF twin.a_retriever.documents.keys = <<>> THEN service ELSE e.service
        /\ result' = [op |-> "retrieve_a",
                      a |-> RetrieveWith(twin.a_retriever, twin.a_index, query, e.vectors[1],
                                         k, NoFilter, FALSE, iter, iter)]
        /\ UNCHANGED <<index_cache, retriever, nIndexed, twin>>
        /\ UNCHANGED twoRest

\* HybridRetriever(B).index_documents(documents), in both runs
IndexB(documents, encodes, fault) ==
    LET texts == [i \in 1..Len(documents) |-> TextOf(documents[i])]
        e1 == embed_batch(service, texts, encodes, fault)
        e2 == embed_batch(twin.service, texts, encodes, fault)
    IN  /\ result.op = "none"
        /\ nIndexed < MaxIndexCalls
        /\ nIndexed' = nIndexed + 1
        /\ service' = e1.service
        /\ retriever' = IndexedRetriever(retriever, documents, "none")
        /\ index_cache' = IndexedVectors(index_cache, documents, e1.vectors, "none")
        /\ twin' = [twin EXCEPT
                !.service = e2.service,
                !.retriever = IndexedRetriever(@, documents, "none"),
                !.index_cache = IndexedVectors(@, documents, e2.vectors, "none")]
        /\ result' = [op |-> "index_b"]
        /\ UNCHANGED nVecOps
        /\ UNCHANGED twoRest

\* HybridRetriever(B).retrieve(query, k, filter), in both runs
RetrieveB(query, k, filter, encodes, fault, iter) ==
    LET e1 == embed_batch(service, <<query>>, encodes, fault)
        e2 == embed_batch(twin.service, <<query>>, encodes, fault)
    IN  /\ result.op = "none"
        /\ retriever.documents.keys # <<>>
        /\ service' = e1.service
        /\ twin' = [twin EXCEPT !.service = e2.service]
        /\ result' = [op |-> "retrieve_b", tier |-> e1.tier,
                      b |-> RetrieveWith(retriever, index_cache, query, e1.vectors[1],
                                         k, filter, FALSE, iter, iter),
                      b_alone |-> RetrieveWith(twin.retriever, twin.index_cache, query,
                                         e2.vectors[1], k, filter, FALSE, iter, iter)]
        /\ UNCHANGED <<index_cache, retriever, nIndexed, nVecOps>>
        /\ UNCHANGED twoRest

\* the caller takes what the call returned
ReturnTwo ==
    /\ result.op \in {"index_a", "retrieve_a", "index_b", "retrieve_b"}
    /\ result' = NoResult
    /\ UNCHANGED <<index_cache, retriever, nIndexed, nVecOps, service, twin>>
    /\ UNCHANGED twoRest

NextTwo ==
    \/ \E documents \in ChunkListsA, encodes \in BOOLEAN, fault \in {"none", "fit"} :
          IndexA(documents, encodes, fault)
    \/ \E query \in Queries, encodes \in BOOLEAN :
          RetrieveA(query, MaxK, encodes, "none", hash_order)
    \/ \E documents \in ChunkListsB, encodes \in BOOLEAN, fault \in {"none", "fit"} :
          IndexB(documents, encodes, fault)
    \/ \E query \in Queries, k \in 1..MaxK, filter \in Filters, encodes \in BOOLEAN :
          RetrieveB(query, k, filter, encodes, "none", hash_order)
    \/ ReturnTwo

SpecTwo == InitTwo /\ [][NextTwo]_vars

----------------------------------------------------------------------------
(* One startup whose retrieve calls go through the provider, and a caller   *)
(* that repeats a retrieve with the same arguments                          *)

\* HybridRetriever.retrieve(query, k, filter) on retriever r, vector index
\* idx and provider svc: what it returns and the provider it leaves
RetrieveVia(r, idx, svc, query, k, filter, encodes, fault, iter) ==
    LET e == embed_batch(svc, <<query>>, encodes, fault)
    IN  [service |-> IF r.documents.keys = <<>> THEN svc ELSE e.service,
         out |-> RetrieveWith(r, idx, query, e.vectors[1], k, filter, FALSE, iter, iter)]

InitRepeat ==
    /\ chunk_storage = <<>>
    /\ index_cache = FaissNew(DefaultDim)
    /\ retriever = NewRetriever(<<>>)
    /\ result = NoResult
    /\ nIndexed = 0
    /\ nBuilt = 0
    /\ nVecOps = 0
    /\ matching_engine = NoRemote
    /\ _shared_model = "model"
    /\ _model_loading = FALSE
    /\ nLoads = 1
    /\ pc = [t \in Threads |-> Idle]
    /\ service = NewService("model")
    /\ twin = NoTwin
    /\ hash_order \in IterOrders

repeatRest == <<chunk_storage, nBuilt, nVecOps, matching_engine, _shared_model,
                _model_loading, nLoads, pc, twin, hash_order>>

\* HybridRetriever.index_documents(documents)
IndexThroughProvider(documents, encodes, fault) ==
    LET e == embed_batch(service, [i \in 1..Len(documents) |-> TextOf(documents[i])],
                         encodes, fault)
    IN  /\ result.op = "none"
        /\ nIndexed < MaxIndexCalls
        /\ nIndexed' = nIndexed + 1
        /\ service' = e.service
        /\ retriever' = IndexedRetriever(retriever, documents, "none")
        /\ index_cache' = IndexedVectors(index_cache, documents, e.vectors, "none")
        /\ result' = [op |-> "index_documents", raised |-> FALSE]
        /\ UNCHANGED repeatRest

\* the first retrieve(query, k, filter)
RetrieveFirst(query, k, filter, encodes, fault) ==
    LET r == RetrieveVia(retriever, index_cache, service, query, k, filter, encodes, fault,
                         hash_order)
    IN  /\ result.op = "none"
        /\ retriever.documents.keys # <<>>
        /\ service' = r.service
        /\ result' = [op |-> "retrieve_first", query |-> query, k |-> k, filter |-> filter,
                      encodes |-> encodes, fault |-> fault,
                      fitted |-> r.service # service, first |-> r.out, second |-> r.out]
        /\ UNCHANGED <<index_cache, retriever, nIndexed>>
        /\ UNCHANGED repeatRest

\* the same retrieve again, nothing having been indexed in between
RetrieveSecond ==
    LET r == RetrieveVia(retriever, index_cache, service, result.query, result.k,
                         result.filter, result.encodes, result.fault, hash_order)
    IN  /\ result.op = "retrieve_first"
        /\ service' = r.service
        /\ result' = [result EXCEPT !.op = "retrieve_second", !.second = r.out]
        /\ UNCHANGED <<index_cache, retriever, nIndexed>>
        /\ UNCHANGED repeatRest

\* the caller takes what the call returned
ReturnRepeat ==
    /\ result.op \in {"index_documents", "retrieve_first", "retrieve_second"}
    /\ result' = NoResult
    /\ UNCHANGED <<index_cache, retriever, nIndexed, service>>
    /\ UNCHANGED repeatRest

NextRepeat ==
    \/ \E documents \in ChunkListsB, encodes \in BOOLEAN, fault \in {"none", "fit"} :
          IndexThroughProvider(documents, encodes, fault)
    \/ \E query \in Queries, k \in 1..MaxK, filter \in Filters, encodes \in BOOLEAN,
          fault \in {"none", "fit"} :
          RetrieveFirst(query, k, filter, encodes, fault)
    \/ RetrieveSecond
    \/ ReturnRepeat

SpecRepeat == InitRepeat /\ [][NextRepeat]_vars

----------------------------------------------------------------------------
(* One startup whose vector index has the remote backend configured         *)
(* (USE_MATCHING_ENGINE is True): index_documents and retrieve              *)

InitRemote ==
    /\ chunk_storage = <<>>
    /\ index_cache = FaissNew(DefaultDim)
    /\ retriever = NewRetriever(<<>>)
    /\ result = NoResult
    /\ nIndexed = 0
    /\ nBuilt = 0
    /\ nVecOps = 0
    /\ matching_engine = MatchingEngineNew
    /\ LoadedOnce
    /\ hash_order \in IterOrders

remoteRest == <<chunk_storage, nBuilt, nVecOps, embedVars>>

\* HybridRetriever.index_documents(documents): HybridVectorIndex.add_vectors
\* stores the vectors in FAISS and upserts them to the remote index
IndexRemote(documents, outcome) ==
    LET embeddings == EmbedBatch([i \in 1..Len(documents) |-> TextOf(documents[i])])
    IN  /\ result.op = "none"
        /\ nIndexed < MaxIndexCalls
        /\ nIndexed' = nIndexed + 1
        /\ retriever' = IndexedRetriever(retriever, documents, "none")
        /\ index_cache' = IndexedVectors(index_cache, documents, embeddings, "none")
        /\ matching_engine' = MatchingEngineAddVectors(matching_engine, embeddings,
                                  [i \in 1..Len(documents) |-> documents[i].id],
                                  [i \in 1..Len(documents) |-> MetaOfDoc(documents[i])],
                                  outcome)
        /\ result' = [op |-> "index_documents", raised |-> FALSE]
        /\ UNCHANGED remoteRest

\* HybridRetriever.retrieve(query, k, filter), the remote backend answering
\* find_neighbors with outcome
RetrieveRemote(query, k, filter, outcome) ==
    LET vector_results == HybridVectorIndexSearch(index_cache, matching_engine,
                              EmbedText(query), VECTOR_K, filter, outcome)
        out == RetrieveFrom(retriever, vector_results, query, k, filter,
                            hash_order, hash_order)
    IN  /\ result.op = "none"
        /\ result' = [op |-> "retrieve_remote", outcome |-> outcome, out |-> out,
                      merge |-> _merge_results(out.vector_results, out.bm25_results,
                                               hash_order)]
        /\ UNCHANGED <<index_cache, retriever, nIndexed, matching_engine>>
        /\ UNCHANGED remoteRest

\* the caller takes what the call returned
ReturnRemote ==
    /\ result.op \in {"index_documents", "retrieve_remote"}
    /\ result' = NoResult
    /\ UNCHANGED <<index_cache, retriever, nIndexed, matching_engine>>
    /\ UNCHANGED remoteRest

NextRemote ==
    \/ \E documents \in ChunkLists, outcome \in {"ok", "raise"} :
          IndexRemote(documents, outcome)
    \/ \E query \in Queries, k \in 1..MaxK, filter \in Filters, outcome \in RemoteOutcomes :
          RetrieveRemote(query, k, filter, outcome)
    \/ ReturnRemote

SpecRemote == InitRemote /\ [][NextRemote]_vars

----------------------------------------------------------------------------
(* A BM25Retriever on its own: index_documents and search                   *)

\* three short documents, one of which holds a distinctive term twice
DocsToy ==
    << Doc("DocumentChunk", "a", "text", <<"team">>),
       Doc("DocumentChunk", "b", "text", <<"Growth", "of", "growth">>),
       Doc("DocumentChunk", "c", "text", <<"the", "ox">>) >>

\* the chunk lists given to BM25Retriever.index_documents, the empty one included
Bm25ChunkLists ==
    { <<>>, DocsToy, DocsA("DocumentChunk"), DocsB("DocumentChunk"), DocsC("DocumentChunk") }

\* the queries given to BM25Retriever.search: two of them have no token left
\* after stop-word and length filtering
Bm25Queries == Queries \cup { <<"team">>, <<"the", "ox">>, <<>> }

InitBm25 ==
    /\ chunk_storage = <<>>
    /\ index_cache = NoIndex
    /\ retriever = NewRetriever(<<>>)
    /\ result = NoResult
    /\ nIndexed = 0
    /\ nBuilt = 0
    /\ nVecOps = 0
    /\ matching_engine = NoRemote
    /\ LoadedOnce
    /\ hash_order \in IterOrders

bm25Rest == <<chunk_storage, index_cache, nBuilt, nVecOps, auxVars>>

\* BM25Retriever.index_documents(documents)
Bm25Index(documents) ==
    /\ result.op = "none"
    /\ nIndexed < MaxIndexCalls
    /\ nIndexed' = nIndexed + 1
    /\ retriever' = [retriever EXCEPT
                        !.bm25_retriever = BM25IndexDocuments(@, documents),
                        !.lastDocs = documents]
    /\ result' = [op |-> "bm25_index", fresh |-> nIndexed = 0, documents |-> documents]
    /\ UNCHANGED bm25Rest

\* BM25Retriever.search(query, k)
Bm25SearchCall(query, k) ==
    LET bs == BM25Search(retriever.bm25_retriever, query, k, hash_order)
    IN  /\ result.op = "none"
        /\ result' = [op |-> "bm25_search", query |-> query, k |-> k,
                      fresh |-> nIndexed <= 1,
                      raised |-> bs.raised, results |-> bs.results]
        /\ UNCHANGED <<retriever, nIndexed>>
        /\ UNCHANGED bm25Rest

\* the caller takes what the call returned
ReturnBm25 ==
    /\ result.op \in {"bm25_index", "bm25_search"}
    /\ result' = NoResult
    /\ UNCHANGED <<retriever, nIndexed>>
    /\ UNCHANGED bm25Rest

NextBm25 ==
    \/ \E documents \in Bm25ChunkLists : Bm25Index(documents)
    \/ \E query \in Bm25Queries, k \in 1..MaxK : Bm25SearchCall(query, k)
    \/ ReturnBm25

SpecBm25 == InitBm25 /\ [][NextBm25]_vars

----------------------------------------------------------------------------
(* A fresh startup indexed with two chunks and queried once, in a process   *)
(* whose provider other startups may have used before                       *)

DocsScenario ==
    << Doc("DocumentChunk", "a", "text", <<"revenue", "grew", "200", "this", "year">>),
       Doc("DocumentChunk", "b", "text", <<"the", "team", "has", "40", "engineers">>) >>

QueryScenario == <<"revenue", "growth">>

\* the tier that answers a provider call, and what the environment does to
\* make it so: model.encode returns; it raises; it raises and scikit-learn
\* cannot be imported
Tiers == {"model", "tfidf", "hash"}

Encodes(tier) == tier = "model"

TierFault(tier) == IF tier = "hash" THEN "import" ELSE "none"

\* texts other startups of the process have embedded
OtherTexts ==
    { << <<"growth", "this", "year">> >>,
      << <<"revenue", "team">> >>,
      << <<"the", "ox">>, <<"team">> >> }

InitScenario ==
    /\ chunk_storage = <<>>
    /\ index_cache = FaissNew(DefaultDim)
    /\ retriever = NewRetriever(<<>>)
    /\ result = NoResult
    /\ nIndexed = 0
    /\ nBuilt = 0
    /\ nVecOps = 0
    /\ matching_engine = NoRemote
    /\ _shared_model = "model"
    /\ _model_loading = FALSE
    /\ nLoads = 1
    /\ pc = [t \in Threads |-> Idle]
    /\ service = NewService("model")
    /\ twin = NoTwin
    /\ hash_order \in IterOrders

scenarioRest == <<chunk_storage, nBuilt, matching_engine, _shared_model, _model_loading,
                  nLoads, pc, twin, hash_order>>

\* another startup's index_documents or retrieve reaches embed_batch(texts)
\* on the shared provider
OtherStartupEmbeds(texts, tier) ==
    /\ result.op = "none"
    /\ nVecOps < MaxEmbedCalls
    /\ nVecOps' = nVecOps + 1
    /\ service' = embed_batch(service, texts, Encodes(tier), TierFault(tier)).service
    /\ UNCHANGED <<index_cache, retriever, result, nIndexed>>
    /\ UNCHANGED scenarioRest

\* index_documents([a, b]) on the fresh startup
IndexScenario(tier) ==
    LET e == embed_batch(service,
                 [i \in 1..Len(DocsScenario) |-> TextOf(DocsScenario[i])],
                 Encodes(tier), TierFault(tier))
    IN  /\ result.op = "none"
        /\ retriever.documents.keys = <<>>
        /\ nIndexed' = nIndexed + 1
        /\ service' = e.service
        /\ retriever' = IndexedRetriever(retriever, DocsScenario, "none")
        /\ index_cache' = IndexedVectors(index_cache, DocsScenario, e.vectors, "none")
        /\ result' = [op |-> "index_documents", tier |-> tier, raised |-> FALSE]
        /\ UNCHANGED nVecOps
        /\ UNCHANGED scenarioRest

\* retrieve('revenue growth', k) right after, the provider being in the
\* same tier
RetrieveScenario(k) ==
    LET r == RetrieveVia(retriever, index_cache, service, QueryScenario, k, NoFilter,
                         Encodes(result.tier), TierFault(result.tier), hash_order)
    IN  /\ result.op = "index_documents"
        /\ service' = r.service
        /\ result' = [op |-> "retrieve_scenario", tier |-> result.tier, k |-> k,
                      out |-> r.out]
        /\ UNCHANGED <<index_cache, retriever, nIndexed, nVecOps>>
        /\ UNCHANGED scenarioRest

\* the caller takes the Evidence list
ReturnScenario ==
    /\ result.op = "retrieve_scenario"
    /\ result' = NoResult
    /\ UNCHANGED <<index_cache, retriever, nIndexed, nVecOps, service>>
    /\ UNCHANGED scenarioRest

NextScenario ==
    \/ \E texts \in OtherTexts, tier \in Tiers : OtherStartupEmbeds(texts, tier)
    \/ \E tier \in Tiers : IndexScenario(tier)
    \/ \E k \in 1..MaxK : RetrieveScenario(k)
    \/ ReturnScenario

SpecScenario == InitScenario /\ [][NextScenario]_vars

----------------------------------------------------------------------------
(* embed_text of one text twice in the hash tier, with other provider calls *)
(* in between                                                               *)

HashTexts == { <<"revenue">>, <<"Revenue", "team">>, <<"the", "of">>, <<>> }

\* a provider whose model is loaded, or one built while another thread was
\* loading the model (self.model is None)
InitHash ==
    /\ chunk_storage = <<>>
    /\ index_cache = NoIndex
    /\ retriever = NoRetriever
    /\ result = NoResult
    /\ nIndexed = 0
    /\ nBuilt = 0
    /\ nVecOps = 0
    /\ matching_engine = NoRemote
    /\ _shared_model = "model"
    /\ _model_loading = FALSE
    /\ nLoads = 1
    /\ pc = [t \in Threads |-> Idle]
    /\ service \in {NewService("model"), NewService("None")}
    /\ twin = NoTwin
    /\ hash_order = IdOrder

hashRest == <<chunk_storage, index_cache, retriever, nIndexed, nBuilt, matching_engine,
              _shared_model, _model_loading, nLoads, pc, twin, hash_order>>

\* await embed_text(text) while neither the model nor scikit-learn answers
HashFirst(text) ==
    LET r == embed_batch(service, <<text>>, FALSE, "import")
    IN  /\ result.op = "none"
        /\ service' = r.service
        /\ result' = [op |-> "hash_first", text |-> text, tier |-> r.tier,
                      first |-> r.vectors[1], second |-> r.vectors[1]]
        /\ UNCHANGED nVecOps
        /\ UNCHANGED hashRest

\* any other provider call, in any tier, before the text is embedded again
EmbedBetween(texts, encodes, fault) ==
    /\ result.op = "hash_first"
    /\ nVecOps < MaxEmbedCalls
    /\ nVecOps' = nVecOps + 1
    /\ service' = embed_batch(service, texts, encodes, fault).service
    /\ UNCHANGED result
    /\ UNCHANGED hashRest

\* await embed_text(text) again, in the hash tier
HashSecond ==
    LET r == embed_batch(service, <<result.text>>, FALSE, "import")
    IN  /\ result.op = "hash_first"
        /\ service' = r.service
        /\ result' = [result EXCEPT !.op = "hash_second", !.tier = r.tier,
                                    !.second = r.vectors[1]]
        /\ UNCHANGED nVecOps
        /\ UNCHANGED hashRest

\* the caller takes the second vector
ReturnHash ==
    /\ result.op = "hash_second"
    /\ result' = NoResult
    /\ UNCHANGED <<nVecOps, service>>
    /\ UNCHANGED hashRest

NextHash ==
    \/ \E text \in HashTexts : HashFirst(text)
    \/ \E texts \in EmbedTextLists, encodes \in BOOLEAN, fault \in TfidfFaults :
          EmbedBetween(texts, encodes, fault)
    \/ HashSecond
    \/ ReturnHash

SpecHash == InitHash /\ [][NextHash]_vars

----------------------------------------------------------------------------
(* Properties *)

DocIds(docs) == {docs[i].id : i \in 1..Len(docs)}

\* the external ids of the rows of the flat store, one entry per mapped row
RowIds(f) ==
    LET mapped == SelectIn([i \in 1..Len(f.rows) |-> i - 1], DOMAIN f.id_map)
    IN  [j \in 1..Len(mapped) |-> f.id_map[mapped[j]]]

ResultIds(results) == [i \in 1..Len(results) |-> results[i].id]

NoDuplicates(s) == \A i, j \in 1..Len(s) : s[i] = s[j] => i = j

\* C1: HybridRetriever.retrieve returns a list of Evidence and never raises
\* an exception to its caller, whatever was constructed and indexed before
\* and whatever the query, k and filter are.
C1_RetrieveNeverRaises ==
    result.op = "retrieve" => ~result.raised

\* C2: every fused score computed by _merge_results lies in [0, 0.7 + 0.3],
\* the vector contribution is in [0, 0.7], the BM25 contribution is in
\* [0, 0.3], and every Evidence built has a confidence in [0, 1].
C2_FusedScoreBounds ==
    result.op = "retrieve" =>
        LET vpairs == VectorPairs(result.vector_results)
            bpairs == result.bm25_results
        IN  /\ \A i \in 1..Len(result.merged) :
                  LET id == result.merged[i][1]
                  IN  /\ 0 <= result.merged[i][2]
                      /\ result.merged[i][2] <= SCALE
                      /\ 0 <= VectorWeight * NormVector(vpairs, id)
                      /\ VectorWeight * NormVector(vpairs, id) <= VectorWeight * SCALE
                      /\ 0 <= Bm25Weight * NormBm25(bpairs, id)
                      /\ Bm25Weight * NormBm25(bpairs, id) <= Bm25Weight * SCALE
            /\ \A i \in 1..Len(result.evidence_list) :
                  /\ 0 <= result.evidence_list[i].confidence
                  /\ result.evidence_list[i].confidence <= SCALE

\* C3: after an index_documents(C2) that follows an earlier index_documents
\* for the startup, the vector index holds exactly one vector per chunk id
\* of C2 and none for any other id, so a vector search returns no id outside
\* C2 and no id twice.
C3_ReindexReplacesVectors ==
    (/\ result.op = "index_documents"
     /\ nIndexed >= 2
     /\ ~retriever.vecFailed) =>
        /\ Range(RowIds(index_cache)) = DocIds(retriever.lastDocs)
        /\ NoDuplicates(RowIds(index_cache))
        /\ Len(index_cache.rows) = Len(retriever.lastDocs)
        /\ \A q \in Queries, filter \in Filters :
              LET ids == ResultIds(FaissSearch(index_cache, EmbedText(q), VECTOR_K, filter))
              IN  Range(ids) \subseteq DocIds(retriever.lastDocs) /\ NoDuplicates(ids)

\* C4: BM25Retriever.index_documents(C) is a full rebuild: whatever was
\* indexed before on the instance (the constructor's load from the chunk
\* store included), its statistics, postings and search results equal those
\* of a fresh BM25Retriever indexed once with C.
C4_Bm25FullRebuild ==
    (retriever.live /\ retriever.indexed) =>
        LET fresh == BM25IndexDocuments(BM25New, retriever.lastDocs)
            bm == retriever.bm25_retriever
        IN  /\ bm.doc_freqs = fresh.doc_freqs
            /\ bm.doc_lens = fresh.doc_lens
            /\ bm.inverted_index = fresh.inverted_index
            /\ bm.total_docs = fresh.total_docs
            /\ bm.avg_num * fresh.avg_den = fresh.avg_num * bm.avg_den
            /\ \A q \in Queries, k \in 1..MaxK, iter \in IterOrders :
                  BM25Search(bm, q, k, iter) = BM25Search(fresh, q, k, iter)

\* C5: in every reachable state the chunk ids of the retriever's keyword
\* index are the chunk ids of its vector index, except for ids whose vector
\* insertion was attempted and failed.
C5_IndexesInLockstep ==
    retriever.live =>
        LET keyword == Range(retriever.bm25_retriever.documents.keys)
            vector == Stored(index_cache)
            failed == IF retriever.vecFailed THEN DocIds(retriever.lastDocs) ELSE {}
        IN  /\ vector \subseteq keyword
            /\ (keyword \ failed) \subseteq vector

\* C6: when add_vectors receives vectors of a width other than the index's,
\* the index is reinitialized empty at the new width before inserting:
\* afterwards the flat store, id map, metadata map and stored-vector map hold
\* only the newly inserted ids at the new width and a search at the new width
\* returns only those ids; and in every reachable state all vectors held by
\* the index have one width.
C6_DimensionReinit ==
    /\ \A v \in HeldVectors(index_cache) : v.dim = index_cache.dimension
    /\ (/\ result.op = "add_vectors"
        /\ result.inserted
        /\ result.vectors[1].dim # result.widthBefore) =>
           /\ index_cache.dimension = result.vectors[1].dim
           /\ HeldIds(index_cache) \subseteq Range(result.ids)
           /\ \A k \in 1..MaxK, filter \in Filters :
                 Range(ResultIds(FaissSearch(index_cache, result.vectors[1], k, filter)))
                     \subseteq Range(result.ids)

\* C7: after delete(ids) returns, whatever add_vectors calls came before, no
\* search returns an id of ids and every id that was stored and is not in
\* ids is still stored and can still be returned by a search.
C7_DeleteKeepsComplement ==
    result.op = "delete" =>
        /\ Stored(index_cache) \cap result.ids = {}
        /\ (result.storedBefore \ result.ids) \subseteq Stored(index_cache)
        /\ \A id \in result.storedBefore \ result.ids :
              \E q \in VecPool :
                 id \in Range(ResultIds(FaissSearch(index_cache, q, MaxRows, NoFilter)))

\* C8: an insert whose ids list and vectors list differ in length raises an
\* error to the caller and leaves the index unchanged, and no other insert
\* raises.
C8_MismatchedInsertRaises ==
    result.op = "add_vectors" =>
        /\ (Len(result.ids) # Len(result.vectors)) => (result.raised /\ result.unchanged)
        /\ result.raised => Len(result.ids) # Len(result.vectors)

\* C9: if batch embedding or vector insertion failed during
\* index_documents(chunks), the keyword index and the known-chunk map keep
\* the state built from chunks, and a following retrieve raises nothing and
\* returns a non-empty list ranked from the BM25 scores alone.
C9_DegradeToKeywordOnly ==
    (retriever.live /\ retriever.indexed /\ retriever.vecFailed) =>
        /\ retriever.documents = DictOfDocs(retriever.lastDocs)
        /\ retriever.bm25_retriever.documents = DictOfDocs(retriever.lastDocs)
        /\ retriever.bm25_retriever.total_docs = Len(retriever.lastDocs)
        /\ result.op = "retrieve" =>
              /\ ~result.raised
              /\ result.evidence_list # <<>>
              /\ result.vector_results = <<>>

\* C10: when both sub-searches yield no results, or the startup was never
\* indexed, retrieve returns the first min(k, n) of the n known chunks in
\* their original order, each with confidence 0.1.
C10_FallbackReturnsKnownChunks ==
    (/\ result.op = "retrieve"
     /\ result.vector_results = <<>>
     /\ result.bm25_results = <<>>) =>
        LET keys == retriever.documents.keys
            n == Len(keys)
        IN  /\ ~result.raised
            /\ Len(result.evidence_list) = Min(result.k, n)
            /\ \A i \in 1..Len(result.evidence_list) :
                  /\ result.evidence_list[i].id = keys[i]
                  /\ result.evidence_list[i].confidence = FlatConfidence

\* the number of entries of merged[:k] whose id is a known chunk
RankedCount(res, documents) ==
    Cardinality({i \in 1..Min(res.k, Len(res.merged)) : DictHas(documents, res.merged[i][1])})

\* C11: whenever the retriever knows n >= 1 chunks and k >= 1, a retrieve
\* that returns yields exactly min(k, n) Evidence records with pairwise
\* distinct ids, each the id of a currently known chunk; when fewer than k
\* candidates are ranked, the rest of the list is the remaining known chunks
\* taken in id order, each at confidence 0.1.
C11_ExactlyMinKNPaddedInIdOrder ==
    (/\ result.op = "retrieve"
     /\ ~result.raised
     /\ Len(retriever.documents.keys) >= 1) =>
        LET ev == result.evidence_list
            ids == ResultIds(ev)
            known == Range(retriever.documents.keys)
            r == RankedCount(result, retriever.documents)
            rest == SelectIn(IdOrder, known \ {ids[i] : i \in 1..r})
        IN  /\ Len(ev) = Min(result.k, Cardinality(known))
            /\ NoDuplicates(ids)
            /\ Range(ids) \subseteq known
            /\ result.path = "merged" =>
                  \A i \in (r + 1)..Len(ev) :
                      /\ ev[i].id = rest[i - r]
                      /\ ev[i].confidence = FlatConfidence

\* C12: with the remote backend configured, HybridVectorIndex.search returns
\* the remote results only when the remote call succeeded with at least one
\* candidate; when it raised or returned none, the result is exactly what
\* the local index returns for the same query; no exception reaches the
\* caller; and after add_vectors the local index is what the local insert of
\* the batch makes of it, whatever the remote insert did.
C12_RemoteFirstLocalFallback ==
    matching_engine.enabled =>
        /\ result.op = "hybrid_search" =>
              LET local == FaissSearch(index_cache, result.q, result.k, result.filter)
                  remoteOk == result.outcome = "ok" /\ result.remote_results # <<>>
              IN  /\ ~result.raised
                  /\ remoteOk => result.results = result.remote_results
                  /\ ~remoteOk => result.results = local
        /\ result.op = "hybrid_add" =>
              /\ ~result.raised
              /\ index_cache = FaissAddVectors(result.localBefore, result.vectors, result.ids,
                                   [i \in 1..Len(result.ids) |-> MetaForId(result.ids[i])],
                                   result.fault)

\* a search whose remote call raised and that returned local candidates
C12_Witness ==
    /\ result.op = "hybrid_search"
    /\ matching_engine.enabled
    /\ matching_engine.datapoints.keys # <<>>
    /\ result.outcome = "raise"
    /\ result.results # <<>>

\* C13: a HybridVectorIndex.search whose remote call is pending eventually
\* returns to its caller, even if the remote backend never answers: the
\* remote call is bounded by a timeout.
C13_SearchAlwaysReturns ==
    (result.op = "find_neighbors") ~> (result.op = "hybrid_search")

\* C14: for any number of LocalEmbeddingService constructions and any
\* interleaving of the threads running _load_model, the sentence-embedding
\* model is loaded at most once per process.
C14_ModelLoadedAtMostOnce ==
    nLoads <= 1

\* C15: embedding never fails the caller: whatever tiers are available,
\* constructing the provider and calling embed_text / embed_batch raises
\* nothing, the vectors returned are one per text and come from the first
\* tier, in the order model, TF-IDF, hash, that works, and an empty list of
\* texts gives an empty result.
C15_EmbeddingNeverFails ==
    /\ result.op = "construct_service" => ~result.raised
    /\ result.op \in {"embed_batch", "embed_text"} =>
          /\ ~result.raised
          /\ Len(result.vectors) = Len(result.texts)
          /\ \A i \in 1..Len(result.vectors) : result.vectors[i].dim = EmbeddingDim
          /\ (result.before.model = "model" /\ result.encodes) <=> result.tier = "model"
          /\ result.tier = "model" => result.vectors = EmbedBatch(result.texts)
          /\ result.tier = "hash" =>
                result.vectors = [i \in 1..Len(result.texts) |-> HashVector(result.texts[i])]
          /\ result.tier = "tfidf" =>
                /\ service.tfidf_vectorizer.fitted
                /\ result.fault \notin {"import", "transform"}
                /\ result.vectors = [i \in 1..Len(result.texts) |->
                       TfidfVector(service.tfidf_vectorizer.vocabulary_, result.texts[i])]

\* C16: batch embedding is equivalent to per-item embedding and keeps the
\* order: for every provider state (whichever tier is active, vectorizer
\* fitted or not) and every list of texts, embed_batch(texts) is the list
\* of embed_text(t) for t in texts, in the same order.
C16_BatchEqualsPerItem ==
    result.op = "embed_batch" =>
        result.vectors = PerItem(result.before, result.texts, result.encodes, result.fault)

C18_Bm25SortedStableTies ==
    (result.op = "retrieve" /\ ~result.bm25_raised) =>
        LET res == result.bm25_results
            keys == retriever.bm25_retriever.documents.keys
        IN  /\ Len(res) <= BM25_K
            /\ \A i, j \in 1..Len(res) :
                  i < j =>
                     /\ res[i][2] >= res[j][2]
                     /\ (res[i][2] = res[j][2]
                         /\ res[i][1] \in Range(keys) /\ res[j][1] \in Range(keys)) =>
                            FirstPos(keys, res[i][1]) < FirstPos(keys, res[j][1])

\* C20: _merge_results returns the union of the candidate ids of the two
\* sub-searches, each once, in non-increasing combined score, and
\* candidates with equal combined score come in the order in which their
\* ids are first met in the sub-search result lists (vector, then BM25).
C20_FusedRankingOrder ==
    (result.op = "retrieve" /\ result.path = "merged" /\ ~MergeRaises(VectorPairs(result.vector_results))) =>
        LET m == result.merged
            met == Dedup(ResultIds(result.vector_results)
                         \o [i \in 1..Len(result.bm25_results) |-> result.bm25_results[i][1]])
        IN  /\ {m[i][1] : i \in 1..Len(m)} = Range(met)
            /\ Len(m) = Len(met)
            /\ \A i, j \in 1..Len(m) :
                  i < j =>
                     /\ m[i][2] >= m[j][2]
                     /\ m[i][2] = m[j][2] => FirstPos(met, m[i][1]) < FirstPos(met, m[j][1])

\* C19: for an unchanged index, a second BM25Retriever.search with the same
\* query and k returns the same ordered list as the first, and a second
\* HybridRetriever.retrieve with the same query, k and filter returns the
\* same ordered Evidence list as the first, equal-score entries included.
C19_RepeatedCallsAgree ==
    result.op = "retrieve_second" =>
        /\ result.second.bm25_raised = result.first.bm25_raised
        /\ result.second.bm25_results = result.first.bm25_results
        /\ result.second.raised = result.first.raised
        /\ result.second.evidence_list = result.first.evidence_list

\* a repeated retrieve whose first call fitted the provider's vectorizer and
\* whose ranking has two entries of equal score
C19_Witness ==
    /\ result.op = "retrieve_second"
    /\ result.fitted
    /\ Len(result.first.evidence_list) >= 2
    /\ \E i, j \in 1..Len(result.first.merged) :
          i # j /\ result.first.merged[i][2] = result.first.merged[j][2]

\* the normalized score the rule "0.5 for every entry when the list's
\* maximum is 0, else score / maximum" gives id in a list of pairs
RuleNorm(pairs, id) ==
    IF id \notin PairIds(pairs) THEN 0
    ELSE IF MaxScore(pairs) = 0 THEN SCALE \div 2
    ELSE QuotTrunc(ScoreOf(pairs, id) * SCALE, MaxScore(pairs))

\* C21: merging a non-empty pair of ranked lists never divides by zero, and
\* each list is normalized on its own: 0.5 for every entry when the list's
\* maximum score is 0, otherwise score / maximum; this with the scores the
\* local or the remote vector backend returns.
C21_NormalizationNeverDividesByZero ==
    (result.op = "retrieve_remote" /\ result.out.path = "merged") =>
        /\ ~result.merge.raised
        /\ \A i \in 1..Len(result.merge.items) :
              LET id == result.merge.items[i][1]
              IN  result.merge.items[i][2] =
                    QuotTrunc(VectorWeight * RuleNorm(VectorPairs(result.out.vector_results), id)
                              + Bm25Weight * RuleNorm(result.out.bm25_results, id), 10)

\* C22: BM25 search on an index holding no documents (never indexed, or last
\* indexed with an empty chunk list), or with a query that has no token,
\* returns an empty list and raises no error.
C22_EmptyIndexOrQueryGivesEmpty ==
    (/\ result.op = "bm25_search"
     /\ \/ retriever.bm25_retriever.documents.keys = <<>>
        \/ _tokenize(result.query) = <<>>)
    => (~result.raised /\ result.results = <<>>)

\* the tokens of the text currently indexed under doc_id
IndexedTokens(bm, doc_id) == Range(_tokenize(TextOf(DictGet(bm.documents, doc_id))))

\* C23: after a first index_documents of three documents of which exactly one
\* holds the term twice, the search for that term returns that document
\* alone, with a positive score; and no search ever returns a document that
\* holds none of the query tokens.
C23_ToyCorpusAndNoTokenNoResult ==
    result.op = "bm25_search" =>
        /\ (result.fresh /\ retriever.lastDocs = DocsToy
               /\ _tokenize(result.query) = <<"growth">>) =>
              /\ ~result.raised
              /\ Len(result.results) = 1
              /\ result.results[1][1] = "b"
              /\ result.results[1][2] > 0
        /\ \A i \in 1..Len(result.results) :
              /\ DictHas(retriever.bm25_retriever.documents, result.results[i][1])
              /\ IndexedTokens(retriever.bm25_retriever, result.results[i][1])
                     \cap Range(_tokenize(result.query)) # {}

\* C27: in every state of a BM25Retriever, for every token the recorded
\* document frequency is the size of the token's postings set and the number
\* of currently indexed chunks whose text holds the token, and every id in a
\* postings set is a key of the document map.
C27_DfEqualsPostingsEqualsHolders ==
    LET bm == retriever.bm25_retriever
    IN  \A t \in Tokens :
            /\ bm.doc_freqs[t] = Cardinality(bm.inverted_index[t])
            /\ bm.inverted_index[t] \subseteq Range(bm.documents.keys)
            /\ bm.inverted_index[t] =
                   {id \in Range(bm.documents.keys) : t \in IndexedTokens(bm, id)}

\* the positions of the Evidence for chunk id in an Evidence list
EvidencePos(evidence_list, id) == {i \in 1..Len(evidence_list) : evidence_list[i].id = id}

\* C24: on a fresh entity indexed with a ('revenue grew 200% this year') and
\* b ('the team has 40 engineers'), retrieve('revenue growth') with k >= 2
\* returns a with a confidence above 0 and ranked above b, in every
\* embedding tier.
C24_ScenarioRanksAFirst ==
    (result.op = "retrieve_scenario" /\ result.k >= 2) =>
        /\ ~result.out.raised
        /\ \E i \in EvidencePos(result.out.evidence_list, "a") :
              /\ result.out.evidence_list[i].confidence > 0
              /\ \A j \in EvidencePos(result.out.evidence_list, "b") : i < j

\* the internal ids FAISSIndex.search gets from the flat index for query q:
\* the min(2k, ntotal) nearest rows, none when the index search raises
Candidates(f, q, k) ==
    IF q.dim # f.dimension \/ f.rows = <<>> THEN <<>>
    ELSE Nearest(f, q, Min(2 * k, Len(f.rows)))

\* the candidates that have an external id whose metadata matches the filter
MatchingCandidates(f, q, k, filter) ==
    LET cands == Candidates(f, q, k)
    IN  SelectIn(cands, {c \in Range(cands) :
            /\ c \in DOMAIN f.id_map
            /\ FilterMatch(IF f.id_map[c] \in DOMAIN f.metadata_map
                           THEN f.metadata_map[f.id_map[c]] ELSE NoMeta, filter)})

\* C25: FAISSIndex.search(q, k, filter) returns at most k results, in
\* non-increasing score order, each with metadata that matches the filter,
\* and they are exactly the first k filter-matching entries among the
\* min(2k, ntotal) nearest candidates: the filter is applied before the
\* truncation to k.
C25_FilterBeforeTruncation ==
    result.op = "search" =>
        LET rs == result.results
            want == Take(MatchingCandidates(index_cache, result.q, result.k, result.filter),
                         result.k)
        IN  /\ Len(rs) <= result.k
            /\ \A i, j \in 1..Len(rs) : i < j => rs[i].score >= rs[j].score
            /\ \A i \in 1..Len(rs) : FilterMatch(rs[i].metadata, result.filter)
            /\ Len(rs) = Len(want)
            /\ \A i \in 1..Len(rs) : rs[i].id = index_cache.id_map[want[i]]

\* a filtered search that returns an entry which is not among the k nearest
\* candidates, a nearer candidate having been filtered out
C25_Witness ==
    /\ result.op = "search"
    /\ result.filter # NoFilter
    /\ result.results # <<>>
    /\ LET cands == Candidates(index_cache, result.q, result.k)
           m == MatchingCandidates(index_cache, result.q, result.k, result.filter)
       IN  \E i \in 1..Len(cands) : i > result.k /\ cands[i] = m[1]

KnownScored(documents, merged) ==
    SelectIn(merged, {p \in Range(merged) : DictHas(documents, p[1])})

\* C29: the ranked part of retrieve's result is the known chunks with the
\* highest fused scores: with n the smaller of k and the number of known
\* chunks that received a fused score, the first n entries returned are the
\* n best-scored known chunks in merged order, each with its fused score
\* (capped at 1.0) as confidence; none of them is left out or returned as a
\* flat padding entry.
C29_RankedPartIsTopKnown ==
    (result.op = "retrieve" /\ ~result.raised /\ result.path = "merged") =>
        LET known == KnownScored(retriever.documents, result.merged)
            n == Min(result.k, Len(known))
        IN  /\ Len(result.evidence_list) >= n
            /\ \A i \in 1..n :
                  /\ result.evidence_list[i].id = known[i][1]
                  /\ result.evidence_list[i].confidence = Min(SCALE, known[i][2])


----------------------------------------------------------------------------
(* One retriever, indexed and queried with and without a metadata filter    *)

ChunkListsF == {DocsA("DocumentChunk"), DocsC("DocumentChunk"), DocsD("DocumentChunk")}

\* the retriever was constructed on an empty chunk store
InitFilter ==
    /\ chunk_storage = <<>>
    /\ index_cache = FaissNew(DefaultDim)
    /\ retriever = NewRetriever(<<>>)
    /\ result = NoResult
    /\ nIndexed = 0
    /\ nBuilt = 0
    /\ nVecOps = 0
    /\ matching_engine = NoRemote
    /\ LoadedOnce
    /\ hash_order \in IterOrders

NextFilter ==
    \/ \E documents \in ChunkListsF, fault \in {"none", "add"} :
          IndexDocuments(documents, fault)
    \/ \E query \in Queries, k \in 1..MaxK, filter \in Filters, embedFault \in BOOLEAN :
          DoRetrieve(query, k, filter, embedFault, hash_order, hash_order)
    \/ ReturnRetrieve

SpecFilter == InitFilter /\ [][NextFilter]_vars

\* the number of entries retrieve took from the first k of a merged list
RankedInTop(documents, merged, k) ==
    Cardinality({i \in 1..Min(k, Len(merged)) : DictHas(documents, merged[i][1])})

\* the ids of an Evidence list, in order
EvidenceIds(evidence_list) == [i \in 1..Len(evidence_list) |-> evidence_list[i].id]

\* C30: a metadata filter restricts the vector sub-search only: every vector
\* result matches it, while the keyword results are those of the unfiltered
\* keyword search, the fallback returns the first min(k, n) known chunks, and
\* the padding takes the first known chunks not yet returned, whatever their
\* type, each at the flat confidence.
C30_FilterRestrictsVectorSearchOnly ==
    (result.op = "retrieve" /\ ~result.raised /\ result.path # "empty") =>
        LET bs == BM25Search(retriever.bm25_retriever, result.query, BM25_K, hash_order)
            keys == retriever.documents.keys
            ev == result.evidence_list
            n == RankedInTop(retriever.documents, result.merged, result.k)
            ranked_ids == {ev[i].id : i \in 1..n}
        IN  /\ \A i \in 1..Len(result.vector_results) :
                  FilterMatch(result.vector_results[i].metadata, result.filter)
            /\ result.bm25_results = IF bs.raised THEN <<>> ELSE bs.results
            /\ result.path = "fallback" =>
                  /\ EvidenceIds(ev) = Take(keys, result.k)
                  /\ \A i \in 1..Len(ev) : ev[i].confidence = FlatConfidence
            /\ result.path = "merged" =>
                  /\ Len(ev) >= n
                  /\ EvidenceIds(SubSeq(ev, n + 1, Len(ev))) =
                        Take(SelectIn(keys, Range(keys) \ ranked_ids), result.k - n)
                  /\ \A i \in (n + 1)..Len(ev) : ev[i].confidence = FlatConfidence

\* a filtered retrieve has returned a chunk of another type that the keyword
\* search contributed
C30_Witness ==
    /\ result.op = "retrieve"
    /\ ~result.raised
    /\ result.filter # NoFilter
    /\ \E i \in 1..Len(result.evidence_list) :
          /\ result.evidence_list[i].type # result.filter.type
          /\ result.evidence_list[i].confidence # FlatConfidence
          /\ \E j \in 1..Len(result.bm25_results) :
                result.bm25_results[j][1] = result.evidence_list[i].id

====
